---- MODULE Spec2Model ----
(***************************************************************************)
(* Translation orchestration of the address-bar translator:               *)
(* the service registry, isServiceAvailable, translateWithFallback and     *)
(* translateDirect of services/index.ts, with the error policy of         *)
(* src/types/index.ts and utils/errors.ts.                                 *)
(***************************************************************************)
EXTENDS Integers, Sequences, FiniteSets, TLC

(* ------------------------------------------------------------------ *)
(* Bounds                                                              *)
(* ------------------------------------------------------------------ *)

\* longest preferences.fallbackOrder explored
MaxEnabled == 3

(* ------------------------------------------------------------------ *)
(* Static data                                                         *)
(* ------------------------------------------------------------------ *)

\* the provider identifiers explored: two keyless providers and one keyed one
ServiceIds == {"google-scraper", "lingva", "deepl"}

\* handler.service.requiresApiKey of the adapter registered under an id: the
\* descriptor is static per provider; the scraping provider (id google-web in
\* the table, google-scraper in ServiceId and in the registry) needs no key
RequiresApiKey(id) ==
    CASE id = "google-scraper" -> FALSE
      [] id = "google-web" -> FALSE
      [] id = "lingva" -> FALSE
      [] id = "deepl" -> TRUE
      [] id = "microsoft" -> TRUE
      [] id = "yandex" -> TRUE
      [] id = "baidu" -> TRUE
      [] id = "youdao" -> TRUE
      [] id = "google-cloud" -> TRUE
      [] OTHER -> FALSE

NoSlot == "null"

\* getStorageKeyForService: the slot of StoredApiKeys that holds a provider's key
GetStorageKeyForService(id) ==
    CASE id = "deepl" -> "deepl"
      [] id = "google-cloud" -> "googleCloud"
      [] id = "yandex" -> "yandex"
      [] id = "microsoft" -> "microsoft"
      [] id = "baidu" -> "baidu"
      [] id = "youdao" -> "youdao"
      [] OTHER -> NoSlot

\* the slots of StoredApiKeys the explored providers use
StorageSlots == {GetStorageKeyForService(id) : id \in ServiceIds} \ {NoSlot}

\* an absent slot of StoredApiKeys (apiKeys[storageKey] is undefined)
NoCredential == [present |-> FALSE, key |-> "", validated |-> FALSE]

\* ApiCredential values a slot can hold
Credentials ==
    {NoCredential} \cup
    {[present |-> TRUE, key |-> "valid-key", validated |-> v] : v \in BOOLEAN}

\* TranslationErrorCode
TranslationErrorCodes ==
    {"NETWORK_ERROR", "INVALID_API_KEY", "QUOTA_EXCEEDED", "RATE_LIMITED",
     "SERVICE_UNAVAILABLE", "INVALID_LANGUAGE", "TEXT_TOO_LONG",
     "SCRAPING_FAILED", "AUTH_METHOD_DEPRECATED", "ALL_SERVICES_FAILED"}

\* isRetryableError
IsRetryableError(code) ==
    code \in {"NETWORK_ERROR", "RATE_LIMITED", "SERVICE_UNAVAILABLE"}

\* shouldFallback
ShouldFallbackAlways(code) == TRUE

ShouldFallback(code) ==
    code # "INVALID_LANGUAGE" /\ code # "TEXT_TOO_LONG"

NoService == "undefined"

\* new TranslationError(code, message, {serviceId})
TranslationError(code, message, serviceId) ==
    [kind |-> "TranslationError", code |-> code, message |-> message,
     serviceId |-> serviceId, retryable |-> IsRetryableError(code)]

\* TranslationError.shouldTriggerFallback
ShouldTriggerFallback(error) == ShouldFallback(error.code)

\* the absence of an error (lastError = null) or of a result
NoError == [kind |-> "null"]
NoResult == [kind |-> "null"]
NoOutcome == [kind |-> "null"]

\* values an adapter rejects with that are not a TranslationError:
\* an Error object or a bare string
UnexpectedErrors ==
    {[kind |-> "Error", message |-> "Fail"],
     [kind |-> "string", message |-> "String error"]}

\* String(error)
String(error) ==
    IF error.kind = "string" THEN error.message
    ELSE IF error.kind = "Error" THEN "Error: " \o error.message
    ELSE "TranslationError: " \o error.message

\* classified errors the adapter registered under id rejects with
AdapterErrors(id) ==
    {TranslationError(code, "adapter failure", id) : code \in TranslationErrorCodes}

\* TranslateResult an adapter resolves with
AdapterResult(id) ==
    [kind |-> "TranslateResult", translation |-> "Hola", serviceId |-> id]

(* ------------------------------------------------------------------ *)
(* State                                                               *)
(* ------------------------------------------------------------------ *)

VARIABLES
    serviceRegistry,    \* ids that have a handler in the registry Map
    pc,                 \* position of the running entry point
    mode,               \* which entry point runs: "none", "fallback", "direct"
    enabledServices,    \* preferences.fallbackOrder of the call
    apiKeys,            \* StoredApiKeys of the call
    availableServices,  \* the filtered list
    j,                  \* index of the filter loop (0-based)
    i,                  \* index of the fallback loop (0-based)
    lastError,          \* the remembered last error
    result,             \* value the call resolved with
    thrown,             \* value the call rejected with
    directId,           \* serviceId argument of translateDirect
    invoked,            \* every handler.translate call made: id and apiKey passed
    inflight,           \* handler.translate calls started and not yet settled
    prevOutcome,        \* how the translate call before the last one settled
    lastOutcome,        \* how the last translate call settled
    cache,              \* TranslationCache.cache: the Map, in iteration order
    now,                \* Date.now()
    backupStore,        \* the cacheBackup item of chrome.storage.session
    lastOp,             \* the cache operation performed last and what it returned
    maxSize,            \* TranslationCache.config.maxSize
    ttl,                \* TranslationCache.config.ttl, in clock ticks
    touched,            \* keys in the cache, from the least to the most recently
                        \* passed to a get that found them or to a set
    fnIn,               \* arguments of the pure function under study
    fnOut,              \* what it returned
    debounceTimer,      \* background worker: the debounce timer, if it is pending
    isTranslating,      \* background worker: the loading flag
    lastResult,         \* background worker: the last translation, for Enter
    suggestion,         \* the default suggestion shown in the omnibox
    runs,               \* the timer callbacks started, in order, with their position
    inputCount,         \* omnibox input-changed events delivered
    enterRun,           \* background worker: the input-entered handler under way
    clipboard,          \* what the worker last copied to the clipboard
    storedTelemetry,    \* preferences.telemetryEnabled as stored
    telemetryEnabled,   \* utils/telemetry: the module flag, per extension context
    posthog,            \* the PostHog client of each context
    inits,              \* initTelemetry calls under way, per context
    captured,           \* the posthog.capture calls made, in order
    toggles,            \* changes of the telemetry switch in the options page
    storedCredential,   \* options page: the stored ApiCredential of the service
    keyUi,              \* options page: the key shown and the validation state
    keyOps,             \* saveApiKey and handleValidateKey calls under way
    passed,             \* keys for which validateApiKey has answered valid
    keyOpCount          \* saveApiKey and handleValidateKey calls started

orchVars == <<serviceRegistry, pc, mode, enabledServices, apiKeys, availableServices,
              j, i, lastError, result, thrown, directId, invoked, inflight,
              prevOutcome, lastOutcome>>

cacheVars == <<cache, now, backupStore, lastOp, maxSize, ttl, touched>>

fnVars == <<fnIn, fnOut>>

workerVars == <<debounceTimer, isTranslating, lastResult, suggestion, runs, inputCount,
                enterRun, clipboard>>

telVars == <<storedTelemetry, telemetryEnabled, posthog, inits, captured, toggles>>

keyVars == <<storedCredential, keyUi, keyOps, passed, keyOpCount>>

extVars == <<workerVars, telVars, keyVars>>

coreVars == <<orchVars, cacheVars, fnVars>>

vars == <<orchVars, cacheVars, fnVars, extVars>>

\* preferences.fallbackOrder values explored: any ServiceId[] up to MaxEnabled
EnabledLists ==
    UNION {[1..n -> ServiceIds] : n \in 0..MaxEnabled}

\* StoredApiKeys values explored
StoredApiKeys == [StorageSlots -> Credentials]

\* no cache operation performed yet
NoOp == [op |-> "none"]

\* no cacheBackup item in session storage
NoBackup == [present |-> FALSE, entries |-> <<>>]

\* DEFAULT_CACHE_CONFIG.maxSize, scaled to the cache sizes explored (500 in the source)
DEFAULT_MAX_SIZE == 3

\* config.maxSize values explored
MaxSizes == {2, 3}

\* DEFAULT_CACHE_CONFIG.ttl, in clock ticks (one hour in the source)
Ttl == 1

\* new TranslationCache({ maxSize: size, ttl: lifetime }), nothing backed up
CacheNew(size, lifetime) ==
    /\ cache = <<>>
    /\ now = 0
    /\ backupStore = NoBackup
    /\ lastOp = NoOp
    /\ maxSize = size
    /\ ttl = lifetime
    /\ touched = <<>>

\* new TranslationCache()
CacheInit == CacheNew(DEFAULT_MAX_SIZE, Ttl)

\* no pure function applied
NoInput == [fn |-> "none"]
NoOutput == [fn |-> "none"]

FnInit ==
    /\ fnIn = NoInput
    /\ fnOut = NoOutput

\* the registry and the entry points before any call
OrchInit ==
    /\ serviceRegistry = {}
    /\ pc = "idle"
    /\ mode = "none"
    /\ enabledServices = <<>>
    /\ apiKeys = [s \in StorageSlots |-> NoCredential]
    /\ availableServices = <<>>
    /\ j = 0
    /\ i = 0
    /\ lastError = NoError
    /\ result = NoResult
    /\ thrown = NoError
    /\ directId = NoService
    /\ invoked = <<>>
    /\ inflight = 0
    /\ prevOutcome = NoOutcome
    /\ lastOutcome = NoOutcome

\* no debounce timer was ever set
NoTimer == [pending |-> FALSE]

\* the default suggestion set when the worker starts: t('omniboxSuggestion')
DefaultSuggestion == [kind |-> "omniboxSuggestion"]

\* the background worker as its module is loaded
WorkerInit ==
    /\ debounceTimer = NoTimer
    /\ isTranslating = FALSE
    /\ lastResult = [kind |-> "null"]
    /\ suggestion = DefaultSuggestion
    /\ runs = <<>>
    /\ inputCount = 0
    /\ enterRun = [pc |-> "idle", reset |-> FALSE]
    /\ clipboard = [kind |-> "empty"]

\* the extension contexts that load utils/telemetry
Contexts == {"options_page", "background"}

\* utils/telemetry as the module is loaded in each context, with the default
\* preferences stored (DEFAULT_PREFERENCES.telemetryEnabled is true)
TelemetryInit ==
    /\ storedTelemetry = TRUE
    /\ telemetryEnabled = [c \in Contexts |-> TRUE]
    /\ posthog = [c \in Contexts |-> [loaded |-> FALSE, optedOut |-> FALSE]]
    /\ inits = [c \in Contexts |-> {}]
    /\ captured = <<>>
    /\ toggles = 0

\* nothing stored for the service, nothing under way
KeysInit ==
    /\ storedCredential = [present |-> FALSE]
    /\ keyUi = [typed |-> "", state |-> "idle"]
    /\ keyOps = {}
    /\ passed = {}
    /\ keyOpCount = 0

ExtInit == WorkerInit /\ TelemetryInit /\ KeysInit

Init == OrchInit /\ CacheInit /\ FnInit /\ ExtInit

(* ------------------------------------------------------------------ *)
(* Registry                                                            *)
(* ------------------------------------------------------------------ *)

\* registerService(handler): serviceRegistry.set(handler.service.id, handler)
RegisterService(id) ==
    /\ pc = "idle"
    /\ serviceRegistry' = serviceRegistry \cup {id}
    /\ UNCHANGED <<pc, mode, enabledServices, apiKeys, availableServices, j, i,
                   lastError, result, thrown, directId, invoked, inflight,
                   prevOutcome, lastOutcome>>
    /\ UNCHANGED <<cacheVars, fnVars, extVars>>

\* isServiceRegistered
IsServiceRegistered(registry, id) == id \in registry

\* apiKeys[storageKey], undefined when the slot is absent
CredentialAt(keys, slot) ==
    IF slot \in DOMAIN keys THEN keys[slot] ELSE NoCredential

\* isServiceAvailable
IsServiceAvailableKeyPresent(registry, id, keys) ==
    IF ~(id \in registry) THEN FALSE
    ELSE IF ~RequiresApiKey(id) THEN TRUE
    ELSE IF GetStorageKeyForService(id) = NoSlot THEN TRUE
    ELSE CredentialAt(keys, GetStorageKeyForService(id)).present

IsServiceAvailableUnregistered(registry, id, keys) ==
    IF ~RequiresApiKey(id) THEN TRUE
    ELSE IF GetStorageKeyForService(id) = NoSlot THEN TRUE
    ELSE LET credential == CredentialAt(keys, GetStorageKeyForService(id))
         IN  credential.present /\ credential.validated = TRUE

IsServiceAvailable(registry, id, keys) ==
    IF ~(id \in registry) THEN FALSE
    ELSE IF ~RequiresApiKey(id) THEN TRUE
    ELSE IF GetStorageKeyForService(id) = NoSlot THEN TRUE
    ELSE LET credential == CredentialAt(keys, GetStorageKeyForService(id))
         IN  credential.present /\ credential.validated = TRUE

\* apiKey handed to handler.translate: apiKeys[storageKey]?.key
ApiKeyFor(id, keys) ==
    IF GetStorageKeyForService(id) = NoSlot THEN "undefined"
    ELSE LET credential == CredentialAt(keys, GetStorageKeyForService(id))
         IN  IF credential.present THEN credential.key ELSE "undefined"

(* ------------------------------------------------------------------ *)
(* translateWithFallback                                               *)
(* ------------------------------------------------------------------ *)

\* thrown when preferences.fallbackOrder is empty
NoServicesEnabledError ==
    TranslationError("ALL_SERVICES_FAILED",
        "No translation services enabled. Enable at least one service in settings.",
        NoService)

\* thrown when the filtered list is empty
NoServicesAvailableError ==
    TranslationError("ALL_SERVICES_FAILED",
        "No translation services available. Check API key configuration.",
        NoService)

\* thrown after the loop when no error was remembered
AllServicesFailedError ==
    TranslationError("ALL_SERVICES_FAILED", "All services failed", NoService)

\* availableServices.push(id)
PushAvailableFront(list, id) == <<id>> \o list

PushAvailable(list, id) == Append(list, id)

\* const isFallback = i > 0
IsFallbackAfterSecond(index) == index > 1

IsFallback(index) == index > 0

\* the error remembered in the catch block for a TranslationError
RememberFirst(previous, error) == IF previous = NoError THEN error ELSE previous

Remember(previous, error) == error

\* the error remembered in the catch block for anything else
WrapAsNetworkError(error, serviceId) ==
    TranslationError("NETWORK_ERROR", String(error), NoService)

WrapUnexpected(error, serviceId) ==
    TranslationError("SERVICE_UNAVAILABLE", String(error), serviceId)

\* how the handler.translate call made last settled
Outcome(kind, serviceId, value) ==
    [call |-> Len(invoked), kind |-> kind, serviceId |-> serviceId, value |-> value]

\* entry of the call up to the empty-list check
TranslateWithFallback(enabled, keys) ==
    /\ pc = "idle"
    /\ mode' = "fallback"
    /\ enabledServices' = enabled
    /\ apiKeys' = keys
    /\ IF Len(enabled) = 0
         THEN /\ thrown' = NoServicesEnabledError
              /\ pc' = "rejected"
         ELSE /\ pc' = "filter"
              /\ UNCHANGED thrown
    /\ UNCHANGED <<serviceRegistry, availableServices, j, i, lastError, result,
                   directId, invoked, inflight, prevOutcome, lastOutcome>>
    /\ UNCHANGED <<cacheVars, fnVars, extVars>>

\* one iteration of the filter loop: await isServiceAvailable(id, apiKeys)
FilterStep ==
    /\ pc = "filter"
    /\ j < Len(enabledServices)
    /\ LET id == enabledServices[j + 1]
       IN  availableServices' =
               IF IsServiceAvailable(serviceRegistry, id, apiKeys)
               THEN PushAvailable(availableServices, id)
               ELSE availableServices
    /\ j' = j + 1
    /\ UNCHANGED <<serviceRegistry, pc, mode, enabledServices, apiKeys, i,
                   lastError, result, thrown, directId, invoked, inflight,
                   prevOutcome, lastOutcome>>
    /\ UNCHANGED <<cacheVars, fnVars, extVars>>

\* end of the filter loop: the empty-filtered-list check, lastError = null
FilterDone ==
    /\ pc = "filter"
    /\ j >= Len(enabledServices)
    /\ IF Len(availableServices) = 0
         THEN /\ thrown' = NoServicesAvailableError
              /\ pc' = "rejected"
              /\ UNCHANGED lastError
         ELSE /\ pc' = "loop"
              /\ lastError' = NoError
              /\ UNCHANGED thrown
    /\ i' = 0
    /\ UNCHANGED <<serviceRegistry, mode, enabledServices, apiKeys,
                   availableServices, j, result, directId, invoked, inflight,
                   prevOutcome, lastOutcome>>
    /\ UNCHANGED <<cacheVars, fnVars, extVars>>

\* head of the fallback loop up to the await of handler.translate
TryServiceHandlerCheckInverted ==
    /\ pc = "loop"
    /\ mode = "fallback"
    /\ IF i >= Len(availableServices)
         THEN \* fell out of the loop
              /\ thrown' = IF lastError = NoError THEN AllServicesFailedError
                                                  ELSE lastError
              /\ pc' = "rejected"
              /\ UNCHANGED <<i, invoked, inflight>>
         ELSE IF IsServiceRegistered(serviceRegistry, availableServices[i + 1])
         THEN \* handler missing: continue
              /\ i' = i + 1
              /\ UNCHANGED <<pc, thrown, invoked, inflight>>
         ELSE /\ invoked' = Append(invoked,
                     [serviceId |-> availableServices[i + 1],
                      apiKey |-> ApiKeyFor(availableServices[i + 1], apiKeys)])
              /\ inflight' = inflight + 1
              /\ pc' = "awaiting"
              /\ UNCHANGED <<i, thrown>>
    /\ UNCHANGED <<serviceRegistry, mode, enabledServices, apiKeys,
                   availableServices, j, lastError, result, directId,
                   prevOutcome, lastOutcome>>
    /\ UNCHANGED <<cacheVars, fnVars, extVars>>

TryService ==
    /\ pc = "loop"
    /\ mode = "fallback"
    /\ IF i >= Len(availableServices)
         THEN \* fell out of the loop
              /\ thrown' = IF lastError = NoError THEN AllServicesFailedError
                                                  ELSE lastError
              /\ pc' = "rejected"
              /\ UNCHANGED <<i, invoked, inflight>>
         ELSE IF ~IsServiceRegistered(serviceRegistry, availableServices[i + 1])
         THEN \* handler missing: continue
              /\ i' = i + 1
              /\ UNCHANGED <<pc, thrown, invoked, inflight>>
         ELSE /\ invoked' = Append(invoked,
                     [serviceId |-> availableServices[i + 1],
                      apiKey |-> ApiKeyFor(availableServices[i + 1], apiKeys)])
              /\ inflight' = inflight + 1
              /\ pc' = "awaiting"
              /\ UNCHANGED <<i, thrown>>
    /\ UNCHANGED <<serviceRegistry, mode, enabledServices, apiKeys,
                   availableServices, j, lastError, result, directId,
                   prevOutcome, lastOutcome>>
    /\ UNCHANGED <<cacheVars, fnVars, extVars>>

\* handler.translate resolves: return {...result, usedFallback, cached}
AdapterResolves ==
    /\ pc = "awaiting"
    /\ mode = "fallback"
    /\ LET serviceId == availableServices[i + 1]
           r == AdapterResult(serviceId)
       IN  /\ result' = [kind |-> "TranslateResultWithMeta",
                         translation |-> r.translation,
                         serviceId |-> r.serviceId,
                         usedFallback |-> IsFallback(i),
                         cached |-> FALSE]
           /\ lastOutcome' = Outcome("resolved", serviceId, r)
    /\ prevOutcome' = lastOutcome
    /\ inflight' = inflight - 1
    /\ pc' = "resolved"
    /\ UNCHANGED <<serviceRegistry, mode, enabledServices, apiKeys,
                   availableServices, j, i, lastError, thrown, directId, invoked>>
    /\ UNCHANGED <<cacheVars, fnVars, extVars>>

\* the part of the catch block after lastError is set
AfterCatchSwallows(error, remembered) ==
    /\ lastError' = remembered
    /\ IF error.kind = "TranslationError" /\ ~ShouldTriggerFallback(error)
         THEN /\ thrown' = error
              /\ pc' = "rejected"
              /\ UNCHANGED i
         ELSE IF i = Len(availableServices) - 1
         THEN /\ pc' = "swallowed"
              /\ UNCHANGED <<i, thrown>>
         ELSE /\ i' = i + 1
              /\ pc' = "loop"
              /\ UNCHANGED thrown

AfterCatch(error, remembered) ==
    /\ lastError' = remembered
    /\ IF error.kind = "TranslationError" /\ ~ShouldTriggerFallback(error)
         THEN /\ thrown' = error
              /\ pc' = "rejected"
              /\ UNCHANGED i
         ELSE IF i = Len(availableServices) - 1
         THEN /\ thrown' = remembered
              /\ pc' = "rejected"
              /\ UNCHANGED i
         ELSE /\ i' = i + 1
              /\ pc' = "loop"
              /\ UNCHANGED thrown

\* handler.translate rejects with a TranslationError
AdapterRejectsClassified ==
    /\ pc = "awaiting"
    /\ mode = "fallback"
    /\ \E error \in AdapterErrors(availableServices[i + 1]) :
          /\ AfterCatch(error, Remember(lastError, error))
          /\ lastOutcome' = Outcome("rejected", availableServices[i + 1], error)
    /\ prevOutcome' = lastOutcome
    /\ inflight' = inflight - 1
    /\ UNCHANGED <<serviceRegistry, mode, enabledServices, apiKeys,
                   availableServices, j, result, directId, invoked>>
    /\ UNCHANGED <<cacheVars, fnVars, extVars>>

\* handler.translate rejects with something that is not a TranslationError
AdapterRejectsUnexpected ==
    /\ pc = "awaiting"
    /\ mode = "fallback"
    /\ \E error \in UnexpectedErrors :
          /\ AfterCatch(error, WrapUnexpected(error, availableServices[i + 1]))
          /\ lastOutcome' = Outcome("rejected", availableServices[i + 1], error)
    /\ prevOutcome' = lastOutcome
    /\ inflight' = inflight - 1
    /\ UNCHANGED <<serviceRegistry, mode, enabledServices, apiKeys,
                   availableServices, j, result, directId, invoked>>
    /\ UNCHANGED <<cacheVars, fnVars, extVars>>

(* ------------------------------------------------------------------ *)
(* translateDirect                                                     *)
(* ------------------------------------------------------------------ *)

\* thrown by translateDirect for an unregistered id
NotRegisteredError(serviceId) ==
    TranslationError("SERVICE_UNAVAILABLE",
        "Service " \o serviceId \o " not registered", NoService)

\* translateDirect up to the call of handler.translate
TranslateDirect(serviceId, keys) ==
    /\ pc = "idle"
    /\ mode' = "direct"
    /\ directId' = serviceId
    /\ apiKeys' = keys
    /\ IF ~IsServiceRegistered(serviceRegistry, serviceId)
         THEN /\ thrown' = NotRegisteredError(serviceId)
              /\ pc' = "rejected"
              /\ UNCHANGED <<invoked, inflight>>
         ELSE /\ invoked' = Append(invoked,
                     [serviceId |-> serviceId,
                      apiKey |-> ApiKeyFor(serviceId, keys)])
              /\ inflight' = inflight + 1
              /\ pc' = "awaiting"
              /\ UNCHANGED thrown
    /\ UNCHANGED <<serviceRegistry, enabledServices, availableServices, j, i,
                   lastError, result, prevOutcome, lastOutcome>>
    /\ UNCHANGED <<cacheVars, fnVars, extVars>>

\* the promise returned by handler.translate resolves
DirectResolves ==
    /\ pc = "awaiting"
    /\ mode = "direct"
    /\ result' = AdapterResult(directId)
    /\ lastOutcome' = Outcome("resolved", directId, AdapterResult(directId))
    /\ prevOutcome' = lastOutcome
    /\ inflight' = inflight - 1
    /\ pc' = "resolved"
    /\ UNCHANGED <<serviceRegistry, mode, enabledServices, apiKeys,
                   availableServices, j, i, lastError, thrown, directId, invoked>>
    /\ UNCHANGED <<cacheVars, fnVars, extVars>>

\* the promise returned by handler.translate rejects: the rejection is the caller's
DirectRejects ==
    /\ pc = "awaiting"
    /\ mode = "direct"
    /\ \E error \in AdapterErrors(directId) \cup UnexpectedErrors :
          /\ thrown' = error
          /\ lastOutcome' = Outcome("rejected", directId, error)
    /\ prevOutcome' = lastOutcome
    /\ inflight' = inflight - 1
    /\ pc' = "rejected"
    /\ UNCHANGED <<serviceRegistry, mode, enabledServices, apiKeys,
                   availableServices, j, i, lastError, result, directId, invoked>>
    /\ UNCHANGED <<cacheVars, fnVars, extVars>>

(* ------------------------------------------------------------------ *)
(* Specification                                                       *)
(* ------------------------------------------------------------------ *)

Next ==
    \/ \E id \in ServiceIds : RegisterService(id)
    \/ \E enabled \in EnabledLists, keys \in StoredApiKeys :
          TranslateWithFallback(enabled, keys)
    \/ FilterStep
    \/ FilterDone
    \/ TryService
    \/ AdapterResolves
    \/ AdapterRejectsClassified
    \/ AdapterRejectsUnexpected
    \/ \E id \in ServiceIds, keys \in StoredApiKeys : TranslateDirect(id, keys)
    \/ DirectResolves
    \/ DirectRejects

Spec == Init /\ [][Next]_vars

(* ------------------------------------------------------------------ *)
(* Properties                                                          *)
(* ------------------------------------------------------------------ *)

\* a provider the call may use: registered, and holding a validated
\* credential when its descriptor requires one
Usable(id) ==
    /\ id \in serviceRegistry
    /\ RequiresApiKey(id) =>
          /\ GetStorageKeyForService(id) \in DOMAIN apiKeys
          /\ apiKeys[GetStorageKeyForService(id)].present
          /\ apiKeys[GetStorageKeyForService(id)].validated

\* the enabled list restricted to usable providers, in the user's order
FilteredEnabled == SelectSeq(enabledServices, LAMBDA id : Usable(id))

\* a rejection the orchestrator answers by trying the next provider
TriggersFallback(error) ==
    \/ error.kind \in {"Error", "string"}
    \/ /\ error.kind = "TranslationError"
       /\ error.code \notin {"INVALID_LANGUAGE", "TEXT_TOO_LONG"}

\* C1: when the first available provider fails with a fallback-triggering
\* error and the next available provider succeeds, the call resolves with the
\* second provider's result, usedFallback = true and that provider's
\* serviceId, and nothing after the second provider is invoked.
C1_FallbackToSecond ==
    ( /\ mode = "fallback"
      /\ prevOutcome.kind = "rejected"
      /\ prevOutcome.call = 1
      /\ TriggersFallback(prevOutcome.value)
      /\ lastOutcome.kind = "resolved"
      /\ lastOutcome.call = 2 )
    => /\ pc = "resolved"
       /\ result.translation = lastOutcome.value.translation
       /\ result.serviceId = FilteredEnabled[2]
       /\ result.usedFallback = TRUE
       /\ Len(invoked) = 2
       /\ invoked[1].serviceId = FilteredEnabled[1]
       /\ invoked[2].serviceId = FilteredEnabled[2]

C1_Witness ==
    /\ mode = "fallback"
    /\ pc = "resolved"
    /\ Len(FilteredEnabled) = 3
    /\ Cardinality({FilteredEnabled[k] : k \in 1..3}) = 3
    /\ result.serviceId = enabledServices[2]
    /\ Len(invoked) = 2
    /\ prevOutcome.kind = "rejected"
    /\ TriggersFallback(prevOutcome.value)
    /\ result.usedFallback

\* C2: a rejection with invalid-language or text-too-long makes the call
\* reject at once with that same error; no later provider is invoked.
C2_NonFallbackShortCircuit ==
    ( /\ mode = "fallback"
      /\ lastOutcome.kind = "rejected"
      /\ lastOutcome.value.kind = "TranslationError"
      /\ lastOutcome.value.code \in {"INVALID_LANGUAGE", "TEXT_TOO_LONG"} )
    => /\ pc = "rejected"
       /\ thrown = lastOutcome.value
       /\ invoked[Len(invoked)].serviceId = lastOutcome.serviceId
       /\ \A k \in 1..Len(invoked) : invoked[k].serviceId = FilteredEnabled[k]

C2_Witness ==
    /\ mode = "fallback"
    /\ pc = "rejected"
    /\ thrown.kind = "TranslationError"
    /\ thrown.code = "INVALID_LANGUAGE"
    /\ Len(invoked) = 1
    /\ Len(FilteredEnabled) >= 2

\* C3: when every available provider fails with a fallback-triggering error
\* the call rejects with the error of the last provider attempted.
C3_LastErrorSurfaces ==
    ( /\ mode = "fallback"
      /\ pc = "rejected"
      /\ Len(invoked) >= 1
      /\ lastOutcome.kind = "rejected"
      /\ lastOutcome.value.kind = "TranslationError"
      /\ TriggersFallback(lastOutcome.value) )
    => /\ thrown = lastOutcome.value
       /\ thrown.serviceId = invoked[Len(invoked)].serviceId
       /\ Len(invoked) = Len(FilteredEnabled)

C3_Witness ==
    /\ mode = "fallback"
    /\ pc = "rejected"
    /\ Len(invoked) = 2
    /\ prevOutcome.kind = "rejected"
    /\ lastOutcome.kind = "rejected"
    /\ lastOutcome.value.kind = "TranslationError"
    /\ prevOutcome.value # lastOutcome.value
    /\ thrown = lastOutcome.value

\* C4: a provider that requires a credential is passed to translate only
\* when its stored credential has validated = true; an enabled provider
\* that is excluded is not tried, the next usable one takes its place.
C4_CredentialFiltering ==
    mode = "fallback" =>
        /\ \A k \in 1..Len(invoked) :
              RequiresApiKey(invoked[k].serviceId) =>
                  /\ apiKeys[GetStorageKeyForService(invoked[k].serviceId)].present
                  /\ apiKeys[GetStorageKeyForService(invoked[k].serviceId)].validated
        /\ Len(invoked) >= 1 =>
              /\ Len(FilteredEnabled) >= 1
              /\ invoked[1].serviceId = FilteredEnabled[1]

C4_Witness ==
    /\ mode = "fallback"
    /\ Len(enabledServices) >= 2
    /\ enabledServices[1] = "deepl"
    /\ "deepl" \in serviceRegistry
    /\ apiKeys["deepl"].present
    /\ ~apiKeys["deepl"].validated
    /\ Len(invoked) = 1
    /\ invoked[1].serviceId = enabledServices[2]

\* C5: the providers invoked during one call are a prefix of the enabled
\* list restricted to registered-and-available providers, in the user's order.
C5_InvokedIsPrefixOfFiltered ==
    mode = "fallback" =>
        /\ Len(invoked) <= Len(FilteredEnabled)
        /\ \A k \in 1..Len(invoked) : invoked[k].serviceId = FilteredEnabled[k]
        /\ \A k \in 1..Len(invoked) :
              \E n \in 1..Len(enabledServices) : enabledServices[n] = invoked[k].serviceId

C5_Witness ==
    /\ mode = "fallback"
    /\ Len(invoked) = 2
    /\ Len(enabledServices) = 3
    /\ invoked[1].serviceId = enabledServices[1]
    /\ invoked[2].serviceId = enabledServices[3]
    /\ invoked[1].serviceId # invoked[2].serviceId

\* C6: the call rejects with all-services-failed and invokes no adapter when
\* the enabled list is empty (no services enabled) and when no enabled
\* provider is registered and available (no services available).
C6_NothingToTry ==
    /\ (mode = "fallback" /\ Len(enabledServices) = 0) =>
          /\ pc = "rejected"
          /\ thrown.kind = "TranslationError"
          /\ thrown.code = "ALL_SERVICES_FAILED"
          /\ thrown.message =
               "No translation services enabled. Enable at least one service in settings."
          /\ invoked = <<>>
    /\ (mode = "fallback" /\ Len(enabledServices) > 0 /\ Len(FilteredEnabled) = 0) =>
          /\ pc \in {"filter", "rejected"}
          /\ invoked = <<>>
          /\ pc = "rejected" =>
                /\ thrown.kind = "TranslationError"
                /\ thrown.code = "ALL_SERVICES_FAILED"
                /\ thrown.message =
                     "No translation services available. Check API key configuration."

C6_Witness ==
    /\ mode = "fallback"
    /\ pc = "rejected"
    /\ Len(enabledServices) = 2
    /\ enabledServices[1] = "deepl"
    /\ "deepl" \in serviceRegistry
    /\ ~(enabledServices[2] \in serviceRegistry)
    /\ thrown.code = "ALL_SERVICES_FAILED"
    /\ invoked = <<>>

\* C7: a successful call reports usedFallback = true exactly when the result
\* came from a provider other than the one at position 0 of the enabled list.
C7_UsedFallbackIffNotPrimary ==
    (mode = "fallback" /\ pc = "resolved") =>
        (result.usedFallback <=> result.serviceId # enabledServices[1])

\* C8: every rejection of the call is a classified TranslationError; a value
\* an adapter raises that is not one is wrapped as service-unavailable tagged
\* with that provider's id, and the call goes on to the next provider.
C8_UnexpectedErrorsAreWrapped ==
    mode = "fallback" =>
        /\ pc = "rejected" => thrown.kind = "TranslationError"
        /\ ( /\ lastOutcome.kind = "rejected"
              /\ lastOutcome.value.kind \in {"Error", "string"} ) =>
              /\ lastError.kind = "TranslationError"
              /\ lastError.code = "SERVICE_UNAVAILABLE"
              /\ lastError.serviceId = invoked[lastOutcome.call].serviceId
              /\ lastError.message = String(lastOutcome.value)
              /\ pc \in {"loop", "awaiting", "rejected"}
              /\ pc = "rejected" =>
                    /\ thrown = lastError
                    /\ Len(invoked) = Len(FilteredEnabled)
              /\ lastOutcome.call < Len(FilteredEnabled) => pc # "rejected"

C8_Witness ==
    /\ mode = "fallback"
    /\ pc = "awaiting"
    /\ Len(invoked) = 2
    /\ lastOutcome.kind = "rejected"
    /\ lastOutcome.value.kind = "Error"
    /\ lastOutcome.call = 1
    /\ lastError.code = "SERVICE_UNAVAILABLE"
    /\ lastError.serviceId = invoked[1].serviceId

\* C9: within one call the translate calls are strictly sequential and each
\* provider's translate is invoked at most once, whatever the enabled list.
C9_SequentialAtMostOncePerProvider ==
    /\ inflight <= 1
    /\ mode = "fallback" =>
          \A a, b \in 1..Len(invoked) :
              a # b => invoked[a].serviceId # invoked[b].serviceId

\* C10: translateDirect rejects with service-unavailable without invoking an
\* adapter when the id is unregistered, otherwise invokes exactly the adapter
\* registered under the id, once; every failure is a classified TranslationError.
C10_DirectSkipsFallback ==
    mode = "direct" =>
        /\ ~(directId \in serviceRegistry) =>
              /\ pc = "rejected"
              /\ thrown.kind = "TranslationError"
              /\ thrown.code = "SERVICE_UNAVAILABLE"
              /\ invoked = <<>>
        /\ directId \in serviceRegistry =>
              /\ Len(invoked) = 1
              /\ invoked[1].serviceId = directId
        /\ pc = "rejected" => thrown.kind = "TranslationError"

(* ------------------------------------------------------------------ *)
(* TranslationCache                                                    *)
(* ------------------------------------------------------------------ *)

\* latest Date.now() explored
MaxTime == 2

\* MAX_CACHE_BACKUP_ENTRIES, scaled to the cache sizes explored (100 in the source)
MAX_CACHE_BACKUP_ENTRIES == 2

\* cache keys explored
CacheKeys == {"k1", "k2", "k3"}

\* translated texts explored
CacheResults == {"v1"}

\* the CacheEntry built by set
CacheEntry(text, timestamp, serviceId) ==
    [result |-> text, timestamp |-> timestamp, serviceId |-> serviceId]

\* Map.has
MapHas(m, key) == \E n \in 1..Len(m) : m[n].key = key

\* Map.get of a key that is present
MapGet(m, key) == m[CHOOSE n \in 1..Len(m) : m[n].key = key].entry

\* Map.delete
MapDelete(m, key) == SelectSeq(m, LAMBDA p : p.key # key)

\* Map.set: a present key keeps its place in the iteration order, a new key
\* goes to the end
MapSet(m, key, entry) ==
    IF MapHas(m, key)
    THEN [n \in 1..Len(m) |->
             IF m[n].key = key THEN [key |-> key, entry |-> entry] ELSE m[n]]
    ELSE Append(m, [key |-> key, entry |-> entry])

\* the TTL test of get and prune: Date.now() - entry.timestamp > this.config.ttl
IsExpiredNever(entry, t) == FALSE

IsExpired(entry, t) == t - entry.timestamp > ttl

\* the TTL test of restore: now - entry.timestamp < this.config.ttl
IsRestorableAlways(entry, t) == TRUE

IsRestorable(entry, t) == t - entry.timestamp < ttl

\* values the operations return
Null == [kind |-> "null"]
Returned(kind, value) == [kind |-> kind, value |-> value]
Undefined == [kind |-> "undefined"]

\* the keys of a Map, in iteration order
MapKeys(m) == [n \in 1..Len(m) |-> m[n].key]

\* the recency record once the Map is m: keys no longer in m are dropped, key
\* (if given and in m) becomes the most recent, keys that entered m by another
\* way than get or set follow in Map order
Touch(t, m, key) ==
    LET kept == SelectSeq(t, LAMBDA k : MapHas(m, k) /\ k # key)
        new  == SelectSeq(MapKeys(m),
                          LAMBDA k : k # key /\ ~\E n \in 1..Len(t) : t[n] = k)
    IN  IF MapHas(m, key) THEN Append(kept \o new, key) ELSE kept \o new

NoKey == ""

\* the Map after get(key)
GetKeepsExpired(m, key, t) ==
    IF ~MapHas(m, key) THEN m
    ELSE IF IsExpired(MapGet(m, key), t) THEN m
    ELSE MapSet(MapDelete(m, key), key, MapGet(m, key))

MapAfterGet(m, key, t) ==
    IF ~MapHas(m, key) THEN m
    ELSE IF IsExpired(MapGet(m, key), t) THEN MapDelete(m, key)
    ELSE MapSet(MapDelete(m, key), key, MapGet(m, key))

\* what get(key) returns
GetReturn(m, key, t) ==
    IF ~MapHas(m, key) THEN Null
    ELSE IF IsExpired(MapGet(m, key), t) THEN Null
    ELSE Returned("entry", MapGet(m, key))

\* get(key)
CacheGet(key) ==
    /\ cache' = MapAfterGet(cache, key, now)
    /\ lastOp' = [op |-> "get", key |-> key, ret |-> GetReturn(cache, key, now),
                  sizeBefore |-> Len(cache)]
    /\ UNCHANGED <<now, backupStore, maxSize, ttl>>
    /\ touched' = IF GetReturn(cache, key, now) = Null
                  THEN Touch(touched, cache', NoKey)
                  ELSE Touch(touched, cache', key)
    /\ UNCHANGED <<orchVars, fnVars, extVars>>

\* the eviction at the head of set
EvictOldest(m) ==
    IF Len(m) >= maxSize
    THEN IF Len(m) > 0 /\ m[1].key # "" THEN MapDelete(m, m[1].key) ELSE m
    ELSE m

\* set(key, result, serviceId)
CacheSet(key, text, serviceId) ==
    /\ cache' = MapSet(EvictOldest(cache), key, CacheEntry(text, now, serviceId))
    /\ lastOp' = [op |-> "set", key |-> key, ret |-> Undefined]
    /\ UNCHANGED <<now, backupStore, maxSize, ttl>>
    /\ touched' = Touch(touched, cache', key)
    /\ UNCHANGED <<orchVars, fnVars, extVars>>

\* has(key): this.get(key) !== null
CacheHas(key) ==
    /\ cache' = MapAfterGet(cache, key, now)
    /\ lastOp' = [op |-> "has", key |-> key,
                  ret |-> Returned("boolean", GetReturn(cache, key, now) # Null),
                  sizeBefore |-> Len(cache)]
    /\ UNCHANGED <<now, backupStore, maxSize, ttl>>
    /\ touched' = IF GetReturn(cache, key, now) = Null
                  THEN Touch(touched, cache', NoKey)
                  ELSE Touch(touched, cache', key)
    /\ UNCHANGED <<orchVars, fnVars, extVars>>

\* delete(key)
CacheDelete(key) ==
    /\ cache' = MapDelete(cache, key)
    /\ lastOp' = [op |-> "delete", key |-> key,
                  ret |-> Returned("boolean", MapHas(cache, key))]
    /\ UNCHANGED <<now, backupStore, maxSize, ttl>>
    /\ touched' = Touch(touched, cache', NoKey)
    /\ UNCHANGED <<orchVars, fnVars, extVars>>

\* clear()
CacheClear ==
    /\ cache' = <<>>
    /\ lastOp' = [op |-> "clear", key |-> "", ret |-> Undefined]
    /\ UNCHANGED <<now, backupStore, maxSize, ttl>>
    /\ touched' = Touch(touched, cache', NoKey)
    /\ UNCHANGED <<orchVars, fnVars, extVars>>

\* Array.from(this.cache.entries()).slice(-MAX_CACHE_BACKUP_ENTRIES)
SliceLast(m, n) ==
    IF Len(m) <= n THEN m ELSE SubSeq(m, Len(m) - n + 1, Len(m))

\* backup(); lastBackup is written and never read
CacheBackup ==
    /\ backupStore' = [present |-> TRUE,
                       entries |-> SliceLast(cache, MAX_CACHE_BACKUP_ENTRIES)]
    /\ lastOp' = [op |-> "backup", key |-> "", ret |-> Undefined]
    /\ UNCHANGED <<cache, now, maxSize, ttl>>
    /\ UNCHANGED touched
    /\ UNCHANGED <<orchVars, fnVars, extVars>>

\* the loop of restore over backup.entries
RECURSIVE RestoreLoop(_, _, _)
RestoreLoop(m, entries, t) ==
    IF entries = <<>> THEN m
    ELSE RestoreLoop(
            IF IsRestorable(Head(entries).entry, t)
            THEN MapSet(m, Head(entries).key, Head(entries).entry)
            ELSE m,
            Tail(entries), t)

\* restoredCount
RestoredCount(entries, t) ==
    Len(SelectSeq(entries, LAMBDA p : IsRestorable(p.entry, t)))

\* restore()
CacheRestore ==
    /\ IF ~backupStore.present
         THEN /\ cache' = cache
              /\ lastOp' = [op |-> "restore", key |-> "", ret |-> Returned("number", 0)]
         ELSE /\ cache' = RestoreLoop(cache, backupStore.entries, now)
              /\ lastOp' = [op |-> "restore", key |-> "",
                            ret |-> Returned("number",
                                       RestoredCount(backupStore.entries, now))]
    /\ UNCHANGED <<now, backupStore, maxSize, ttl>>
    /\ touched' = Touch(touched, cache', NoKey)
    /\ UNCHANGED <<orchVars, fnVars, extVars>>

\* the Map after prune()
PruneOldestOnly(m, t) ==
    IF Len(m) > 0 /\ IsExpired(m[1].entry, t) THEN Tail(m) ELSE m

MapAfterPrune(m, t) == SelectSeq(m, LAMBDA p : ~IsExpired(p.entry, t))

\* prune()
CachePrune ==
    /\ cache' = MapAfterPrune(cache, now)
    /\ lastOp' = [op |-> "prune", key |-> "",
                  ret |-> Returned("number",
                             Len(cache) - Len(MapAfterPrune(cache, now)))]
    /\ UNCHANGED <<now, backupStore, maxSize, ttl>>
    /\ touched' = Touch(touched, cache', NoKey)
    /\ UNCHANGED <<orchVars, fnVars, extVars>>

\* time passes
Tick ==
    /\ now < MaxTime
    /\ now' = now + 1
    /\ lastOp' = [op |-> "tick", key |-> "", ret |-> Undefined]
    /\ UNCHANGED <<cache, backupStore, maxSize, ttl>>
    /\ UNCHANGED touched
    /\ UNCHANGED <<orchVars, fnVars, extVars>>

\* the service worker restarts: the module is loaded again with a new
\* TranslationCache, session storage is kept
WorkerRestart ==
    /\ cache' = <<>>
    /\ lastOp' = [op |-> "restart", key |-> "", ret |-> Undefined]
    /\ UNCHANGED <<now, backupStore, maxSize, ttl>>
    /\ touched' = Touch(touched, cache', NoKey)
    /\ UNCHANGED <<orchVars, fnVars, extVars>>

NextCache ==
    \/ \E key \in CacheKeys : CacheGet(key)
    \/ \E key \in CacheKeys, text \in CacheResults : CacheSet(key, text, "deepl")
    \/ \E key \in CacheKeys : CacheHas(key)
    \/ \E key \in CacheKeys : CacheDelete(key)
    \/ CacheClear
    \/ CacheBackup
    \/ CacheRestore
    \/ CachePrune
    \/ Tick
    \/ WorkerRestart

\* a cache of any explored size, freshly constructed
InitCache == OrchInit /\ (\E size \in MaxSizes : CacheNew(size, Ttl)) /\ FnInit /\ ExtInit

SpecCache == InitCache /\ [][NextCache]_vars

\* keys explored for the in-memory operations alone
LruKeys == CacheKeys \cup {"k4"}

\* the in-memory operations, without session storage
NextLru ==
    \/ \E key \in LruKeys : CacheGet(key)
    \/ \E key \in LruKeys, text \in CacheResults : CacheSet(key, text, "deepl")
    \/ \E key \in LruKeys : CacheHas(key)
    \/ \E key \in LruKeys : CacheDelete(key)
    \/ CacheClear
    \/ CachePrune
    \/ Tick

SpecLru == InitCache /\ [][NextLru]_vars

(* ------------------------------------------------------------------ *)
(* Properties of the cache                                             *)
(* ------------------------------------------------------------------ *)

\* the set of keys of a Map
KeySet(m) == {m[n].key : n \in 1..Len(m)}

\* get would return every entry of m at time t
AllUnexpired(m, t) == \A n \in 1..Len(m) : ~IsExpired(m[n].entry, t)

\* the step is a set(key, ...) call
IsSetStep(key) ==
    /\ lastOp'.op = "set" /\ lastOp'.key = key
    /\ MapHas(cache', key) /\ MapGet(cache', key).timestamp = now
    /\ now' = now /\ backupStore' = backupStore

\* C11: in a cache of capacity N that holds N unexpired entries, set of a key
\* that is not present evicts exactly one entry, the one least recently
\* touched by a get that found it or by a set, and keeps all the others.
C11_EvictsLeastRecentlyTouched ==
    [][\A key \in LruKeys :
         ( /\ IsSetStep(key)
           /\ ~MapHas(cache, key)
           /\ Len(cache) = maxSize
           /\ AllUnexpired(cache, now) ) =>
             KeySet(cache') = (KeySet(cache) \ {Head(touched)}) \cup {key}]_vars

\* C12: after set(k, ...) the key k is the most recently used entry of the
\* cache, whether or not k was present before the call.
C12_SetMakesMostRecent ==
    [][\A key \in CacheKeys :
         IsSetStep(key) => cache'[Len(cache')].key = key]_vars

\* C13: whatever sequence of set, get, has, delete, prune, clear and restore
\* is applied, the cache never holds more than maxSize entries.
C13_NeverExceedsCapacity == Len(cache) <= maxSize

\* the step is a get(key) call
IsGetStep(key) ==
    /\ lastOp'.op = "get" /\ lastOp'.key = key
    /\ lastOp'.sizeBefore = Len(cache)
    /\ now' = now /\ backupStore' = backupStore

\* C14: get on an entry older than the TTL returns null and removes it (one
\* entry fewer, the key absent); get on an entry younger than the TTL returns
\* the entry; the passing of time alone removes nothing.
C14_GetExpiresOnAccess ==
    [][/\ \A key \in CacheKeys :
            (IsGetStep(key) /\ MapHas(cache, key)) =>
                /\ (now - MapGet(cache, key).timestamp > ttl) =>
                       /\ lastOp'.ret = Null
                       /\ ~MapHas(cache', key)
                       /\ Len(cache') = Len(cache) - 1
                /\ (now - MapGet(cache, key).timestamp < ttl) =>
                       /\ lastOp'.ret = Returned("entry", MapGet(cache, key))
                       /\ MapHas(cache', key)
                       /\ MapGet(cache', key) = MapGet(cache, key)
       /\ (now' # now) => cache' = cache]_vars

\* a get that found an entry, returned null and left the cache one entry
\* smaller, other entries remaining
C14_Witness ==
    /\ lastOp.op = "get"
    /\ lastOp.ret = Null
    /\ lastOp.sizeBefore = Len(cache) + 1
    /\ ~MapHas(cache, lastOp.key)
    /\ Len(cache) > 0

\* the elements of a sequence
SeqRange(q) == {q[n] : n \in 1..Len(q)}

\* the step is a backup() call
IsBackupStep ==
    /\ lastOp'.op = "backup"
    /\ backupStore'.present
    /\ cache' = cache /\ now' = now

\* the step is a restore() call
IsRestoreStep ==
    /\ lastOp'.op = "restore"
    /\ lastOp'.ret.kind = "number"
    /\ now' = now /\ backupStore' = backupStore

\* C15: backup() stores the entries of the cache, limited to the
\* MAX_CACHE_BACKUP_ENTRIES most recently used ones, in the order of the cache, and
\* restore() on an empty cache, every stored entry still younger than the TTL,
\* repopulates exactly these entries (keys, values, timestamps, order) and
\* returns their number.
C15_BackupRestoreRoundTrip ==
    [][/\ IsBackupStep =>
            /\ KeySet(backupStore'.entries) =
                   SeqRange(SliceLast(touched, MAX_CACHE_BACKUP_ENTRIES))
            /\ backupStore'.entries =
                   SelectSeq(cache, LAMBDA p : p.key \in KeySet(backupStore'.entries))
       /\ ( /\ IsRestoreStep
             /\ backupStore.present
             /\ cache = <<>>
             /\ \A n \in 1..Len(backupStore.entries) :
                    now - backupStore.entries[n].entry.timestamp < ttl ) =>
                /\ cache' = backupStore.entries
                /\ lastOp'.ret.value = Len(backupStore.entries)]_vars

\* the snapshot entries whose TTL has not elapsed at time t
FreshSnapshot(entries, t) == SelectSeq(entries, LAMBDA p : t - p.entry.timestamp < ttl)

\* C16: restore inserts exactly the snapshot entries whose TTL has not elapsed
\* and discards the others, leaves every other entry of the cache as it was,
\* and returns the number inserted; with no snapshot stored it returns 0 and
\* leaves the cache unchanged.
C16_RestoreSkipsElapsed ==
    [][IsRestoreStep =>
         IF ~backupStore.present
         THEN lastOp'.ret.value = 0 /\ cache' = cache
         ELSE LET fresh == FreshSnapshot(backupStore.entries, now)
              IN  /\ lastOp'.ret.value = Len(fresh)
                  /\ KeySet(cache') = KeySet(cache) \cup KeySet(fresh)
                  /\ \A n \in 1..Len(fresh) :
                         MapGet(cache', fresh[n].key) = fresh[n].entry
                  /\ \A key \in KeySet(cache) \ KeySet(fresh) :
                         MapGet(cache', key) = MapGet(cache, key)]_vars

\* a restore that inserted one snapshot entry and discarded another
C16_Witness ==
    /\ lastOp.op = "restore"
    /\ backupStore.present
    /\ lastOp.ret.value >= 1
    /\ lastOp.ret.value < Len(backupStore.entries)
    /\ \E n, k \in 1..Len(backupStore.entries) :
          /\ now - backupStore.entries[n].entry.timestamp < ttl
          /\ MapHas(cache, backupStore.entries[n].key)
          /\ MapGet(cache, backupStore.entries[n].key) = backupStore.entries[n].entry
          /\ now - backupStore.entries[k].entry.timestamp >= ttl
          /\ ~MapHas(cache, backupStore.entries[k].key)

\* the step is a prune() call
IsPruneStep ==
    /\ lastOp'.op = "prune"
    /\ lastOp'.ret.kind = "number"
    /\ now' = now /\ backupStore' = backupStore

\* C18: prune removes every entry older than the TTL and nothing else, keeps
\* the order of the surviving entries, and returns the number removed.
C18_PruneRemovesExactlyExpired ==
    [][IsPruneStep =>
         /\ cache' = SelectSeq(cache, LAMBDA p : ~(now - p.entry.timestamp > ttl))
         /\ lastOp'.ret.value = Len(cache) - Len(cache')]_vars

\* a prune that removed entries and left at least two others
C18_Witness ==
    /\ lastOp.op = "prune"
    /\ lastOp.ret.value >= 1
    /\ Len(cache) >= 2
    /\ \A n \in 1..Len(cache) : now - cache[n].entry.timestamp <= ttl

(* ------------------------------------------------------------------ *)
(* generateKey                                                         *)
(* ------------------------------------------------------------------ *)

\* longest sourceLang / targetLang explored
MaxLangLen == 2

\* longest text explored
MaxTextLen == 2

\* strings are sequences of characters
LangChars == {"e", ":"}
TextChars == {"a", "A", " "}

StringsOver(chars, maxLen) == UNION {[1..n -> chars] : n \in 0..maxLen}

\* serviceId values explored; a ServiceId holds no ':' and is kept as one symbol
KeyServiceIds == {"deepl", "lingva"}

\* argument tuples of generateKey explored
KeyInputs ==
    [serviceId : KeyServiceIds,
     sourceLang : StringsOver(LangChars, MaxLangLen),
     targetLang : StringsOver(LangChars, MaxLangLen),
     text : StringsOver(TextChars, MaxTextLen)]

\* String.prototype.toLowerCase
LowerLetters == <<"a", "b", "c", "d", "e", "f", "g", "h", "i", "j", "k", "l", "m", "n", "o", "p", "q", "r", "s", "t", "u", "v", "w", "x", "y", "z">>
UpperLetters == <<"A", "B", "C", "D", "E", "F", "G", "H", "I", "J", "K", "L", "M", "N", "O", "P", "Q", "R", "S", "T", "U", "V", "W", "X", "Y", "Z">>
LowerChar(c) ==
    IF \E n \in 1..Len(UpperLetters) : UpperLetters[n] = c
    THEN LowerLetters[CHOOSE n \in 1..Len(UpperLetters) : UpperLetters[n] = c]
    ELSE c
ToLowerCase(str) == [n \in 1..Len(str) |-> LowerChar(str[n])]

\* String.prototype.trim
IsWhitespace(c) == c = " "
RECURSIVE TrimStart(_)
TrimStart(str) ==
    IF str # <<>> /\ IsWhitespace(Head(str)) THEN TrimStart(Tail(str)) ELSE str
RECURSIVE TrimEnd(_)
TrimEnd(str) ==
    IF str # <<>> /\ IsWhitespace(str[Len(str)])
    THEN TrimEnd(SubSeq(str, 1, Len(str) - 1))
    ELSE str
Trim(str) == TrimEnd(TrimStart(str))

\* generateKey(serviceId, sourceLang, targetLang, text)
GenerateKey(serviceId, sourceLang, targetLang, text) ==
    LET normalizedText == Trim(ToLowerCase(text))
    IN  <<serviceId>> \o <<":">> \o sourceLang \o <<":">> \o targetLang
            \o <<":">> \o normalizedText

KeyOf(in) == GenerateKey(in.serviceId, in.sourceLang, in.targetLang, in.text)

\* generateKey is called with the arguments drawn
GenerateKeyCall ==
    /\ fnOut = NoOutput
    /\ fnOut' = [fn |-> "generateKey", key |-> KeyOf(fnIn)]
    /\ UNCHANGED fnIn
    /\ UNCHANGED <<orchVars, cacheVars, extVars>>

InitKey == OrchInit /\ CacheInit /\ fnIn \in KeyInputs /\ fnOut = NoOutput /\ ExtInit

NextKey == GenerateKeyCall

SpecKey == InitKey /\ [][NextKey]_vars

\* two argument tuples agree on the provider and the two languages verbatim
\* and on the text once trimmed and lower-cased
SameKeyTuple(a, b) ==
    /\ a.serviceId = b.serviceId
    /\ a.sourceLang = b.sourceLang
    /\ a.targetLang = b.targetLang
    /\ ToLowerCase(Trim(a.text)) = ToLowerCase(Trim(b.text))

\* C17: generateKey gives two argument tuples the same key exactly when the
\* provider id, source language and target language are equal verbatim and the
\* texts are equal after trimming and lower-casing.
C17_KeyEqualIffSameTuple ==
    fnOut.fn = "generateKey" =>
        \A other \in KeyInputs :
            (KeyOf(other) = fnOut.key) <=> SameKeyTuple(fnIn, other)

(* ------------------------------------------------------------------ *)
(* Error policy                                                        *)
(* ------------------------------------------------------------------ *)

\* messages explored
ErrorMessages == {"", "Network error", "HTTP 503"}

\* options.serviceId values explored
ErrorServiceIds == ServiceIds \cup {NoService}

\* constructor arguments of TranslationError explored
ErrorInputs ==
    [code : TranslationErrorCodes, message : ErrorMessages, serviceId : ErrorServiceIds]

\* new TranslationError(code, message, {serviceId}) is built and asked
\* shouldTriggerFallback(); shouldFallback(code) is called as well
NewTranslationError ==
    /\ fnOut = NoOutput
    /\ LET error == TranslationError(fnIn.code, fnIn.message, fnIn.serviceId)
       IN  fnOut' = [fn |-> "TranslationError",
                     error |-> error,
                     shouldTriggerFallback |-> ShouldTriggerFallback(error),
                     shouldFallback |-> ShouldFallback(fnIn.code)]
    /\ UNCHANGED fnIn
    /\ UNCHANGED <<orchVars, cacheVars, extVars>>

InitErrors == OrchInit /\ CacheInit /\ fnIn \in ErrorInputs /\ fnOut = NoOutput /\ ExtInit

NextErrors == NewTranslationError

SpecErrors == InitErrors /\ [][NextErrors]_vars

\* the error kinds of the policy table, by their code
TabulatedCodes ==
    {"NETWORK_ERROR", "INVALID_API_KEY", "QUOTA_EXCEEDED", "RATE_LIMITED",
     "SERVICE_UNAVAILABLE", "INVALID_LANGUAGE", "TEXT_TOO_LONG",
     "SCRAPING_FAILED", "ALL_SERVICES_FAILED"}

\* the fallback column of the table
TabulatedFallback(code) ==
    code \in {"NETWORK_ERROR", "INVALID_API_KEY", "QUOTA_EXCEEDED", "RATE_LIMITED",
              "SERVICE_UNAVAILABLE", "SCRAPING_FAILED"}

\* the retryable column of the table
TabulatedRetryable(code) == code \in {"NETWORK_ERROR", "RATE_LIMITED"}

\* C19: for every tabulated error kind, shouldFallback and
\* shouldTriggerFallback return the fallback flag of the table: false for
\* invalid-language, text-too-long and all-services-failed, true for the rest.
C19_FallbackFlagAsTabulated ==
    (fnOut.fn = "TranslationError" /\ fnIn.code \in TabulatedCodes) =>
        /\ fnOut.shouldFallback = TabulatedFallback(fnIn.code)
        /\ fnOut.shouldTriggerFallback = TabulatedFallback(fnIn.code)

\* C20: the retryable flag of a TranslationError is the one tabulated for its
\* kind: true for network-error and rate-limited only.
C20_RetryableFlagAsTabulated ==
    (fnOut.fn = "TranslationError" /\ fnIn.code \in TabulatedCodes) =>
        fnOut.error.retryable = TabulatedRetryable(fnIn.code)

(* ------------------------------------------------------------------ *)
(* Background worker: omnibox input                                    *)
(* ------------------------------------------------------------------ *)

\* omnibox input-changed events explored
MaxInputs == 3

\* texts typed into the omnibox
OmniboxTexts == {" ", "fr", "hello", "fr hola"}

\* input.trim()
TrimmedInput(text) ==
    CASE text = " " -> ""
      [] OTHER -> text

\* parseOmniboxInput for the texts explored: blank input and a lone language
\* code are language queries, a leading language code is split off the text
ParseOmniboxInput(text) ==
    CASE TrimmedInput(text) = "" -> [text |-> "", isLanguageQuery |-> TRUE]
      [] text = "fr" -> [text |-> "", isLanguageQuery |-> TRUE, targetLang |-> "fr"]
      [] text = "fr hola" ->
            [text |-> "hola", isLanguageQuery |-> FALSE, targetLang |-> "fr"]
      [] OTHER -> [text |-> TrimmedInput(text), isLanguageQuery |-> FALSE]

\* the results translateWithFallback may resolve with for a request text
WorkerResults(text) ==
    {[translation |-> "translation of " \o text, serviceId |-> id,
      usedFallback |-> fb] : id \in {"google-scraper"}, fb \in {FALSE}}

\* the errors it may reject with
WorkerErrors == {AllServicesFailedError}

\* formatSuggestionDescription
FormatSuggestionDescription(translation, sourceText, usedFallback, serviceName) ==
    [kind |-> "result", match |-> translation, source |-> sourceText,
     via |-> IF usedFallback THEN serviceName ELSE ""]

\* formatErrorDescription
FormatErrorDescription(errorMessage) == [kind |-> "error", message |-> errorMessage]

\* t('omniboxTranslating')
TranslatingSuggestion == [kind |-> "omniboxTranslating"]

\* omnibox.onInputChanged listener
InputChanged(text) ==
    /\ inputCount < MaxInputs
    /\ inputCount' = inputCount + 1
    /\ IF TrimmedInput(text) = ""
       THEN /\ debounceTimer' = NoTimer
            /\ UNCHANGED suggestion
       ELSE /\ suggestion' = IF ~isTranslating THEN TranslatingSuggestion ELSE suggestion
            /\ debounceTimer' = [pending |-> TRUE, text |-> text]
    /\ UNCHANGED <<isTranslating, lastResult, runs, enterRun, clipboard>>
    /\ UNCHANGED <<coreVars, telVars, keyVars>>

\* DEBOUNCE_DELAY elapses: the timer callback starts and waits for
\* getPreferences / getApiKeys
TimerFires ==
    /\ debounceTimer.pending
    /\ debounceTimer' = NoTimer
    /\ isTranslating' = TRUE
    /\ runs' = Append(runs, [text |-> debounceTimer.text, pc |-> "prefs",
                              outcome |-> [kind |-> "none"]])
    /\ UNCHANGED <<lastResult, suggestion, inputCount, enterRun, clipboard>>
    /\ UNCHANGED <<coreVars, telVars, keyVars>>

\* preferences and keys are loaded: the input is parsed and, unless it is a
\* language query, translateWithFallback is called
PrefsLoaded(r) ==
    /\ r \in 1..Len(runs)
    /\ runs[r].pc = "prefs"
    /\ IF ParseOmniboxInput(runs[r].text).isLanguageQuery
       THEN /\ runs' = [runs EXCEPT ![r].pc = "done",
                                    ![r].outcome = [kind |-> "languageQuery"]]
            /\ isTranslating' = FALSE
       ELSE /\ runs' = [runs EXCEPT ![r].pc = "translating"]
            /\ UNCHANGED isTranslating
    /\ UNCHANGED <<debounceTimer, lastResult, suggestion, inputCount, enterRun, clipboard>>
    /\ UNCHANGED <<coreVars, telVars, keyVars>>

\* translateWithFallback resolves
TranslationResolves(r) ==
    /\ r \in 1..Len(runs)
    /\ runs[r].pc = "translating"
    /\ \E res \in WorkerResults(ParseOmniboxInput(runs[r].text).text) :
          /\ lastResult' = [kind |-> "string", value |-> res.translation]
          /\ suggestion' = FormatSuggestionDescription(res.translation,
                               ParseOmniboxInput(runs[r].text).text,
                               res.usedFallback, res.serviceId)
          /\ runs' = [runs EXCEPT ![r].pc = "done",
                                  ![r].outcome = [kind |-> "resolved", value |-> res]]
    /\ isTranslating' = FALSE
    /\ UNCHANGED <<debounceTimer, inputCount, enterRun, clipboard>>
    /\ UNCHANGED <<coreVars, telVars, keyVars>>

\* translateWithFallback rejects: the catch block
TranslationRejects(r) ==
    /\ r \in 1..Len(runs)
    /\ runs[r].pc = "translating"
    /\ \E error \in WorkerErrors :
          /\ suggestion' = FormatErrorDescription(error.message)
          /\ runs' = [runs EXCEPT ![r].pc = "done",
                                  ![r].outcome = [kind |-> "rejected", value |-> error]]
    /\ lastResult' = [kind |-> "null"]
    /\ isTranslating' = FALSE
    /\ UNCHANGED <<debounceTimer, inputCount, enterRun, clipboard>>
    /\ UNCHANGED <<coreVars, telVars, keyVars>>

\* the end of the input-entered handler: copyToClipboard(translationToCopy),
\* which may fail; on success the suggestion says so and a timer is set to
\* put the default suggestion back
CopyToClipboard(text, translationToCopy, success) ==
    IF success
    THEN /\ clipboard' = [kind |-> "text", value |-> translationToCopy,
                          entered |-> text]
         /\ suggestion' = [kind |-> "omniboxCopied", value |-> translationToCopy]
         /\ enterRun' = [pc |-> "idle", reset |-> TRUE]
    ELSE /\ UNCHANGED <<clipboard, suggestion>>
         /\ enterRun' = [pc |-> "idle", reset |-> enterRun.reset]

\* omnibox.onInputEntered listener, up to its first await that is not the copy
InputEntered(text) ==
    /\ enterRun.pc \in {"idle", "failed"}
    /\ IF lastResult.kind = "string"
       THEN \E success \in BOOLEAN :
                CopyToClipboard(text, lastResult.value, success)
       ELSE /\ enterRun' = [pc |-> "prefs", reset |-> enterRun.reset, text |-> text]
            /\ UNCHANGED <<clipboard, suggestion>>
    /\ UNCHANGED <<debounceTimer, isTranslating, lastResult, runs, inputCount>>
    /\ UNCHANGED <<coreVars, telVars, keyVars>>

\* the handler found no lastResult: preferences and keys are loaded, the
\* entered text is parsed and, unless it is a language query, translated
EnterPrefsLoaded ==
    /\ enterRun.pc = "prefs"
    /\ enterRun' = IF ParseOmniboxInput(enterRun.text).isLanguageQuery
                   THEN [pc |-> "idle", reset |-> enterRun.reset]
                   ELSE [enterRun EXCEPT !.pc = "translating"]
    /\ UNCHANGED <<debounceTimer, isTranslating, lastResult, suggestion, runs,
                   inputCount, clipboard>>
    /\ UNCHANGED <<coreVars, telVars, keyVars>>

\* the handler's translateWithFallback resolves and the translation is copied
EnterTranslationResolves ==
    /\ enterRun.pc = "translating"
    /\ \E res \in WorkerResults(ParseOmniboxInput(enterRun.text).text),
          success \in BOOLEAN :
          CopyToClipboard(enterRun.text, res.translation, success)
    /\ UNCHANGED <<debounceTimer, isTranslating, lastResult, runs, inputCount>>
    /\ UNCHANGED <<coreVars, telVars, keyVars>>

\* the handler's translateWithFallback rejects: the catch block logs that the
\* handler failed
EnterTranslationRejects ==
    /\ enterRun.pc = "translating"
    /\ enterRun' = [pc |-> "failed", reset |-> enterRun.reset]
    /\ UNCHANGED <<debounceTimer, isTranslating, lastResult, suggestion, runs,
                   inputCount, clipboard>>
    /\ UNCHANGED <<coreVars, telVars, keyVars>>

\* 3000 ms after a copy: the default suggestion is put back
CopiedResetFires ==
    /\ enterRun.reset
    /\ enterRun' = [enterRun EXCEPT !.reset = FALSE]
    /\ suggestion' = DefaultSuggestion
    /\ UNCHANGED <<debounceTimer, isTranslating, lastResult, runs, inputCount,
                   clipboard>>
    /\ UNCHANGED <<coreVars, telVars, keyVars>>

NextWorker ==
    \/ \E text \in OmniboxTexts : InputChanged(text)
    \/ TimerFires
    \/ \E r \in 1..MaxInputs : PrefsLoaded(r)
    \/ \E r \in 1..MaxInputs : TranslationResolves(r)
    \/ \E r \in 1..MaxInputs : TranslationRejects(r)
    \/ \E text \in OmniboxTexts : InputEntered(text)
    \/ EnterPrefsLoaded
    \/ EnterTranslationResolves
    \/ EnterTranslationRejects
    \/ CopiedResetFires

SpecWorker == Init /\ [][NextWorker]_vars

\* the translateWithFallback calls of the worker that have not settled
OrchestrationsInFlight == {r \in 1..Len(runs) : runs[r].pc = "translating"}

\* C21: whatever omnibox input-changed events arrive, at most one
\* translateWithFallback orchestration of the worker is in flight at any time.
C21_AtMostOneOrchestration == Cardinality(OrchestrationsInFlight) <= 1

\* nothing is pending: no timer, no callback under way
WorkerQuiescent ==
    /\ ~debounceTimer.pending
    /\ \A r \in 1..Len(runs) : runs[r].pc = "done"

\* C30: once every translation in flight has completed, lastResult and the
\* translation or error shown as the omnibox suggestion are those of the most
\* recently submitted input: an older request never overwrites a newer one.
C30_LatestInputWins ==
    (WorkerQuiescent /\ runs # <<>>) =>
        LET last == runs[Len(runs)]
        IN  /\ (last.outcome.kind = "resolved") =>
                  /\ lastResult = [kind |-> "string",
                                    value |-> last.outcome.value.translation]
                  /\ suggestion.kind \in {"result", "error"} =>
                        suggestion = FormatSuggestionDescription(
                                        last.outcome.value.translation,
                                        ParseOmniboxInput(last.text).text,
                                        last.outcome.value.usedFallback,
                                        last.outcome.value.serviceId)
            /\ (last.outcome.kind = "rejected") =>
                  /\ lastResult = [kind |-> "null"]
                  /\ suggestion.kind \in {"result", "error"} =>
                        suggestion = FormatErrorDescription(last.outcome.value.message)

\* C31: the text the input-entered handler copies to the clipboard is a
\* translation of the text passed to that handler, never the remembered
\* result of an earlier, different input.
C31_ClipboardIsOfEnteredText ==
    clipboard.kind = "text" =>
        \E res \in WorkerResults(ParseOmniboxInput(clipboard.entered).text) :
            clipboard.value = res.translation

(* ------------------------------------------------------------------ *)
(* Termination of translateWithFallback                                *)
(* ------------------------------------------------------------------ *)

\* a handler.translate call that was started settles
AdapterSettles ==
    \/ AdapterResolves
    \/ AdapterRejectsClassified
    \/ AdapterRejectsUnexpected

\* the continuation of the async function runs once what it awaits has
\* settled, and every adapter call started does settle
SpecLive ==
    /\ Spec
    /\ WF_vars(FilterStep)
    /\ WF_vars(FilterDone)
    /\ WF_vars(TryService)
    /\ WF_vars(AdapterSettles)

\* the call has resolved or rejected
CallSettled == pc \in {"resolved", "rejected"}

\* C22: if every adapter call started completes, every translateWithFallback
\* call eventually resolves or rejects, having made at most one translate
\* invocation per entry of the filtered list.
C22_CallTerminates ==
    /\ [](mode = "fallback" => Len(invoked) <= Len(availableServices))
    /\ (mode = "fallback") ~> CallSettled

\* a call that rejected after trying every entry of a filtered list of two or more
C22_Witness ==
    /\ mode = "fallback"
    /\ pc = "rejected"
    /\ Len(availableServices) >= 2
    /\ Len(invoked) = Len(availableServices)

\* C27: once the filtered list is not empty, a rejection of
\* translateWithFallback is never the generic all-services-failed error: it is
\* the error the provider attempted last raised, or that error wrapped as
\* service-unavailable with that provider's id when it was not classified.
C27_RejectionsComeFromAttempts ==
    (mode = "fallback" /\ pc = "rejected" /\ Len(availableServices) > 0) =>
        /\ thrown # AllServicesFailedError
        /\ invoked # <<>>
        /\ lastOutcome.kind = "rejected"
        /\ lastOutcome.call = Len(invoked)
        /\ lastOutcome.serviceId = invoked[Len(invoked)].serviceId
        /\ thrown.kind = "TranslationError"
        /\ IF lastOutcome.value.kind = "TranslationError"
           THEN thrown = lastOutcome.value
           ELSE /\ thrown.code = "SERVICE_UNAVAILABLE"
                /\ thrown.serviceId = lastOutcome.serviceId

\* a call that rejected with the wrapped error of the second provider tried
C27_Witness ==
    /\ mode = "fallback"
    /\ pc = "rejected"
    /\ Len(invoked) = 2
    /\ lastOutcome.kind = "rejected"
    /\ lastOutcome.value.kind = "Error"
    /\ thrown.code = "SERVICE_UNAVAILABLE"
    /\ thrown.serviceId = invoked[2].serviceId

(* ------------------------------------------------------------------ *)
(* Language codes                                                      *)
(* ------------------------------------------------------------------ *)

\* String.prototype.toUpperCase
UpperChar(c) ==
    IF \E n \in 1..Len(LowerLetters) : LowerLetters[n] = c
    THEN UpperLetters[CHOOSE n \in 1..Len(LowerLetters) : LowerLetters[n] = c]
    ELSE c
ToUpperCase(str) == [n \in 1..Len(str) |-> UpperChar(str[n])]

\* 'auto'
Auto == <<"a", "u", "t", "o">>

\* a Record<string, string> as the set of its <<key, value>> pairs
HasKey(map, key) == \E pair \in map : pair[1] = key
Lookup(map, key) == (CHOOSE pair \in map : pair[1] = key)[2]
Keys(map) == {pair[1] : pair \in map}

GOOGLE_LANG_MAP ==
    {<<<<"z", "h", "-", "c", "n">>, <<"z", "h", "-", "C", "N">>>>,
     <<<<"z", "h", "-", "t", "w">>, <<"z", "h", "-", "T", "W">>>>,
     <<<<"z", "h">>, <<"z", "h", "-", "C", "N">>>>,
     <<<<"p", "t">>, <<"p", "t", "-", "P", "T">>>>,
     <<<<"p", "t", "-", "b", "r">>, <<"p", "t", "-", "B", "R">>>>,
     <<<<"p", "t", "-", "p", "t">>, <<"p", "t", "-", "P", "T">>>>,
     <<<<"n", "b">>, <<"n", "o">>>>,
     <<<<"n", "o">>, <<"n", "o">>>>}

\* toGoogleLanguage
ToGoogleLanguage(code) ==
    IF code = Auto THEN Auto
    ELSE LET normalized == ToLowerCase(code)
         IN  IF HasKey(GOOGLE_LANG_MAP, normalized)
             THEN Lookup(GOOGLE_LANG_MAP, normalized)
             ELSE code

DEEPL_LANG_MAP ==
    {<<<<"e", "n">>, <<"E", "N">>>>,
     <<<<"e", "n", "-", "u", "s">>, <<"E", "N", "-", "U", "S">>>>,
     <<<<"e", "n", "-", "g", "b">>, <<"E", "N", "-", "G", "B">>>>,
     <<<<"p", "t">>, <<"P", "T", "-", "P", "T">>>>,
     <<<<"p", "t", "-", "b", "r">>, <<"P", "T", "-", "B", "R">>>>,
     <<<<"p", "t", "-", "p", "t">>, <<"P", "T", "-", "P", "T">>>>,
     <<<<"z", "h", "-", "c", "n">>, <<"Z", "H", "-", "H", "A", "N", "S">>>>,
     <<<<"z", "h", "-", "t", "w">>, <<"Z", "H", "-", "H", "A", "N", "T">>>>,
     <<<<"z", "h">>, <<"Z", "H", "-", "H", "A", "N", "S">>>>,
     <<<<"n", "b">>, <<"N", "B">>>>,
     <<<<"n", "o">>, <<"N", "B">>>>}

\* toDeepLLanguage
ToDeepLLanguageUpperOnly(code) ==
    IF code = Auto THEN code ELSE ToUpperCase(code)

ToDeepLLanguage(code) ==
    IF code = Auto THEN code
    ELSE LET normalized == ToLowerCase(code)
         IN  IF HasKey(DEEPL_LANG_MAP, normalized)
             THEN Lookup(DEEPL_LANG_MAP, normalized)
             ELSE ToUpperCase(code)

\* str.split('-')[0]
RECURSIVE BeforeHyphen(_)
BeforeHyphen(str) ==
    IF str = <<>> \/ Head(str) = "-" THEN <<>>
    ELSE <<Head(str)>> \o BeforeHyphen(Tail(str))

\* fromDeepLLanguage
FromDeepLLanguage(code) ==
    LET upper == ToUpperCase(code)
    IN  IF upper = <<"Z", "H", "-", "H", "A", "N", "S">> \/ upper = <<"Z", "H">> THEN <<"z", "h", "-", "C", "N">>
        ELSE IF upper = <<"Z", "H", "-", "H", "A", "N", "T">> THEN <<"z", "h", "-", "T", "W">>
        ELSE IF upper = <<"P", "T", "-", "P", "T">> \/ upper = <<"P", "T">> THEN <<"p", "t">>
        ELSE IF upper = <<"P", "T", "-", "B", "R">> THEN <<"p", "t", "-", "B", "R">>
        ELSE IF upper = <<"N", "B">> THEN <<"n", "b">>
        ELSE BeforeHyphen(ToLowerCase(code))

\* language codes explored: every key of the DeepL table, 'auto', and codes of
\* the shape isValidLanguageCode accepts over a few letters in both cases
BaseLetters == {"n", "o", "b", "N"}
RegionLetters == {"n", "O"}
BaseCodes == [1..2 -> BaseLetters]
RegionSuffixes == {<<>>} \cup {<<"-">> \o region : region \in [1..2 -> RegionLetters]}
OtherCodes == {<<"f", "r">>, <<"d", "e">>, <<"j", "a">>, <<"F", "R">>, <<"f", "r", "-", "C", "A">>, <<"z", "h", "-", "H", "a", "n", "t">>, <<"z", "h", "-", "T", "W">>, <<"p", "t", "-", "B", "R">>, <<"e", "n", "-", "G", "B">>, <<"Z", "H">>}
LanguageCodes ==
    Keys(DEEPL_LANG_MAP) \cup {Auto} \cup OtherCodes
        \cup {base \o suffix : base \in BaseCodes, suffix \in RegionSuffixes}

\* toDeepLLanguage is applied to the code drawn, fromDeepLLanguage to its result
DeepLRoundTrip ==
    /\ fnOut = NoOutput
    /\ fnOut' = [fn |-> "deeplRoundTrip",
                 deepl |-> ToDeepLLanguage(fnIn.code),
                 back |-> FromDeepLLanguage(ToDeepLLanguage(fnIn.code))]
    /\ UNCHANGED fnIn
    /\ UNCHANGED <<orchVars, cacheVars, extVars>>

InitLang ==
    /\ OrchInit /\ CacheInit /\ ExtInit
    /\ fnIn \in {[fn |-> "deeplRoundTrip", code |-> code] : code \in LanguageCodes}
    /\ fnOut = NoOutput

NextLang == DeepLRoundTrip

SpecLang == InitLang /\ [][NextLang]_vars

\* the base language subtag of a code, lower-cased
BaseSubtag(code) == BeforeHyphen(ToLowerCase(code))

No == <<"n", "o">>

\* C26 as stated: for every supported code, fromDeepLLanguage(toDeepLLanguage(code))
\* has the base language subtag of code, compared case-insensitively.
C26_RoundTripKeepsBase ==
    fnOut.fn = "deeplRoundTrip" => BaseSubtag(fnOut.back) = BaseSubtag(fnIn.code)

\* C26 amended: the round trip keeps the base language subtag of every
\* supported code except 'no', which comes back as 'nb'.
C26_RoundTripKeepsBaseButNo ==
    fnOut.fn = "deeplRoundTrip" =>
        IF ToLowerCase(fnIn.code) = No
        THEN fnOut.back = <<"n", "b">>
        ELSE BaseSubtag(fnOut.back) = BaseSubtag(fnIn.code)

\* a regional code of the table that went through both conversions
C26_Witness ==
    /\ fnOut.fn = "deeplRoundTrip"
    /\ fnIn.code = <<"z", "h", "-", "t", "w">>
    /\ fnOut.deepl = <<"Z", "H", "-", "H", "A", "N", "T">>
    /\ fnOut.back = <<"z", "h", "-", "T", "W">>

(* ------------------------------------------------------------------ *)
(* Adapters: translate                                                 *)
(* ------------------------------------------------------------------ *)

\* new TranslationError(code, message, {serviceId, httpStatus})
NoStatus == 0
TranslationErrorWithStatus(code, message, serviceId, httpStatus) ==
    [kind |-> "TranslationError", code |-> code, message |-> message,
     serviceId |-> serviceId, retryable |-> IsRetryableError(code),
     httpStatus |-> httpStatus]

\* createErrorFromResponse
CreateErrorFromResponse(status, serviceId) ==
    CASE status \in {401, 403} ->
            TranslationErrorWithStatus("INVALID_API_KEY", "Authentication failed",
                                       serviceId, status)
      [] status = 429 ->
            TranslationErrorWithStatus("RATE_LIMITED", "Rate limit exceeded",
                                       serviceId, status)
      [] status = 456 ->
            TranslationErrorWithStatus("QUOTA_EXCEEDED", "Quota exceeded",
                                       serviceId, status)
      [] status \in {500, 502, 503, 504} ->
            TranslationErrorWithStatus("SERVICE_UNAVAILABLE", "Service unavailable",
                                       serviceId, status)
      [] OTHER ->
            TranslationErrorWithStatus("SERVICE_UNAVAILABLE",
                                       "HTTP error " \o ToString(status),
                                       serviceId, status)

\* the adapters shipped
Adapters == {"google-scraper", "lingva", "deepl"}

\* HTTP statuses explored; response.ok is status in 200..299
HttpStatuses == {200, 401, 403, 404, 429, 456, 500, 503}
ResponseOk(status) == status >= 200 /\ status <= 299

\* what reading the body gives: a translation, a well-formed body without
\* one, or an exception (response.json() / response.text() rejects)
Bodies == {"translation", "noTranslation", "unreadable"}

\* what fetch does: it rejects with a network-level exception or resolves
\* with a response
NetworkBehaviours ==
    {[kind |-> "throws", message |-> "Failed to fetch"]}
        \cup {[kind |-> "response", status |-> 200, body |-> body] : body \in Bodies}
        \cup {[kind |-> "response", status |-> status, body |-> "noTranslation"] :
                  status \in HttpStatuses \ {200}}

\* request languages and credentials explored
AdapterLangs == {Auto, <<"e", "n">>, <<"z", "h">>, <<"z", "h", "-", "C", "N">>, <<"p", "t">>, <<"n", "b">>}
AdapterApiKeys == {"", "key", "key:fx"}
EndsWithFx(apiKey) == apiKey = "key:fx"

TranslateParams ==
    [text : {"hello"}, sourceLang : AdapterLangs, targetLang : AdapterLangs \ {Auto},
     apiKey : AdapterApiKeys]

\* a settled translate call: how it settled and the requests it sent
Settled(kind, value, requests) ==
    [kind |-> kind, value |-> value, requests |-> requests]

\* the catch block of the three adapters: a TranslationError is rethrown,
\* anything else becomes NETWORK_ERROR with the adapter's id
CatchRethrowsRaw(error, serviceId) == error

CatchInAdapter(error, serviceId) ==
    IF error.kind = "TranslationError" THEN error
    ELSE TranslationErrorWithStatus("NETWORK_ERROR", error.message, serviceId, NoStatus)

\* the exception fetch, response.json() or response.text() raises
NetworkException(message) == [kind |-> "Error", message |-> message]

\* the requests a call sends
SendTwice(request) == <<request, request>>

SendOnce(request) == <<request>>

\* the part of translate after fetch, common to the three adapters up to the
\* errors raised: notOk is thrown for a non-2xx status, noTranslation for a
\* body without a translation
AfterFetch(serviceId, net, request, notOk, noTranslation, translated) ==
    IF net.kind = "throws"
    THEN Settled("rejected",
                 CatchInAdapter(NetworkException(net.message), serviceId),
                 SendOnce(request))
    ELSE IF ~ResponseOk(net.status)
    THEN Settled("rejected", CatchInAdapter(notOk, serviceId), SendOnce(request))
    ELSE IF net.body = "unreadable"
    THEN Settled("rejected",
                 CatchInAdapter(NetworkException("Unexpected end of input"), serviceId),
                 SendOnce(request))
    ELSE IF net.body = "noTranslation"
    THEN Settled("rejected", CatchInAdapter(noTranslation, serviceId), SendOnce(request))
    ELSE Settled("resolved", translated, SendOnce(request))

\* GoogleScraperService.translate
GoogleTranslate(params, net) ==
    LET id == "google-scraper"
        sl == IF params.sourceLang = Auto THEN Auto ELSE params.sourceLang
        tl == params.targetLang
        request == [to |-> id, sl |-> sl, tl |-> tl, q |-> params.text]
    IN  AfterFetch(id, net, request,
            TranslationErrorWithStatus("SERVICE_UNAVAILABLE",
                "Google Translate returned status " \o ToString(net.status),
                id, net.status),
            TranslationErrorWithStatus("SCRAPING_FAILED",
                "Could not parse translation from response", id, NoStatus),
            [kind |-> "TranslateResult", translation |-> "Hola", serviceId |-> id])

\* LingvaTranslationService.translate
LingvaTranslate(params, net) ==
    LET id == "lingva"
        sl == IF params.sourceLang = Auto THEN Auto ELSE params.sourceLang
        tl == params.targetLang
        request == [to |-> id, sl |-> sl, tl |-> tl, q |-> params.text]
    IN  AfterFetch(id, net, request,
            TranslationErrorWithStatus("SERVICE_UNAVAILABLE",
                "Lingva returned status " \o ToString(net.status), id, net.status),
            TranslationErrorWithStatus("SCRAPING_FAILED",
                "Could not get translation from Lingva response", id, NoStatus),
            [kind |-> "TranslateResult", translation |-> "Hola", serviceId |-> id])

\* DeepLTranslationService.translate
DeepLTranslate(params, net) ==
    LET id == "deepl"
        request == [to |-> id,
                    endpoint |-> IF EndsWithFx(params.apiKey) THEN "free" ELSE "pro",
                    authorization |-> "DeepL-Auth-Key " \o params.apiKey,
                    text |-> params.text,
                    target_lang |-> ToUpperCase(params.targetLang),
                    source_lang |-> IF params.sourceLang # Auto
                                    THEN <<ToUpperCase(params.sourceLang)>>
                                    ELSE <<>>]
        notOk == IF net.status = 403
                 THEN TranslationErrorWithStatus("INVALID_API_KEY",
                          "Invalid DeepL API Key", id, 403)
                 ELSE IF net.status = 456
                 THEN TranslationErrorWithStatus("QUOTA_EXCEEDED",
                          "DeepL Quota Exceeded", id, 456)
                 ELSE TranslationErrorWithStatus("SERVICE_UNAVAILABLE",
                          "DeepL returned status " \o ToString(net.status),
                          id, net.status)
    IN  IF params.apiKey = ""
        THEN Settled("rejected",
                     TranslationErrorWithStatus("INVALID_API_KEY",
                         "API key required for DeepL", id, NoStatus),
                     <<>>)
        ELSE AfterFetch(id, net, request,
                 IF net.kind = "response" THEN notOk ELSE NoError,
                 TranslationErrorWithStatus("SERVICE_UNAVAILABLE",
                     "No translation returned", id, NoStatus),
                 [kind |-> "TranslateResult", translation |-> "Hola",
                  serviceId |-> id])

\* handler.translate of the adapter registered under id
AdapterTranslate(id, params, net) ==
    CASE id = "google-scraper" -> GoogleTranslate(params, net)
      [] id = "lingva" -> LingvaTranslate(params, net)
      [] id = "deepl" -> DeepLTranslate(params, net)

\* translate is called on an adapter and settles
TranslateCall ==
    /\ fnOut = NoOutput
    /\ fnOut' = [fn |-> "translate",
                 settled |-> AdapterTranslate(fnIn.adapter, fnIn.params, fnIn.net)]
    /\ UNCHANGED fnIn
    /\ UNCHANGED <<orchVars, cacheVars, extVars>>

InitAdapters ==
    /\ OrchInit /\ CacheInit /\ ExtInit
    /\ fnIn \in [fn : {"translate"}, adapter : Adapters, params : TranslateParams,
                  net : NetworkBehaviours]
    /\ fnOut = NoOutput

NextAdapters == TranslateCall

SpecAdapters == InitAdapters /\ [][NextAdapters]_vars

\* a translate call has settled
TranslateSettled == fnOut # NoOutput /\ fnOut.fn = "translate"

\* the failures of a translate call: a non-2xx response, a network exception,
\* a body that cannot be read or holds no translation, a missing credential
MissingCredential == fnIn.adapter = "deepl" /\ fnIn.params.apiKey = ""
NonOkResponse == fnIn.net.kind = "response" /\ ~ResponseOk(fnIn.net.status)
NetworkFailure == fnIn.net.kind = "throws"
BadBody ==
    /\ fnIn.net.kind = "response"
    /\ ResponseOk(fnIn.net.status)
    /\ fnIn.net.body \in {"unreadable", "noTranslation"}
TranslateFails == MissingCredential \/ NonOkResponse \/ NetworkFailure \/ BadBody

C28_NonOkErrorAsClassified ==
    (TranslateSettled /\ NonOkResponse /\ ~MissingCredential) =>
        LET classified == CreateErrorFromResponse(fnIn.net.status, fnIn.adapter)
        IN  /\ fnOut.settled.kind = "rejected"
            /\ fnOut.settled.value.code = classified.code
            /\ fnOut.settled.value.serviceId = classified.serviceId
            /\ fnOut.settled.value.httpStatus = classified.httpStatus

\* C29: the language codes an adapter puts on the wire are the normalizer's:
\* toDeepLLanguage for DeepL with source 'auto' omitted, toGoogleLanguage for
\* Google and Lingva with source 'auto' sent as 'auto'
C29_WireCodesAreNormalized ==
    TranslateSettled =>
        \A n \in 1..Len(fnOut.settled.requests) :
            LET request == fnOut.settled.requests[n]
                params == fnIn.params
            IN  IF fnIn.adapter = "deepl"
                THEN /\ request.target_lang = ToDeepLLanguage(params.targetLang)
                     /\ request.source_lang =
                            IF params.sourceLang = Auto THEN <<>>
                            ELSE <<ToDeepLLanguage(params.sourceLang)>>
                ELSE /\ request.tl = ToGoogleLanguage(params.targetLang)
                     /\ request.sl =
                            IF params.sourceLang = Auto THEN Auto
                            ELSE ToGoogleLanguage(params.sourceLang)

(* ------------------------------------------------------------------ *)
(* Telemetry                                                           *)
(* ------------------------------------------------------------------ *)

MaxEvents == 2
MaxToggles == 2

\* TelemetryEvents
TelemetryEvents == {"translation_requested", "translation_succeeded",
                    "translation_failed"}

\* an initTelemetry call waiting for getPreferences, and one whose
\* getPreferences has read the stored preference
InitReading == [read |-> FALSE]
InitRead(value) == [read |-> TRUE, value |-> value]

\* defineBackground: the worker starts (again) with a fresh module and calls
\* initTelemetry without awaiting it
BackgroundStarts ==
    /\ telemetryEnabled' = [telemetryEnabled EXCEPT !["background"] = TRUE]
    /\ posthog' = [posthog EXCEPT !["background"] =
                       [loaded |-> FALSE, optedOut |-> FALSE]]
    /\ inits' = [inits EXCEPT !["background"] = {InitReading}]
    /\ UNCHANGED <<storedTelemetry, captured, toggles>>
    /\ UNCHANGED <<coreVars, workerVars, keyVars>>

\* initTelemetry: getPreferences reads the stored preference
InitTelemetryReads(c) ==
    /\ InitReading \in inits[c]
    /\ inits' = [inits EXCEPT ![c] = (@ \ {InitReading}) \cup {InitRead(storedTelemetry)}]
    /\ UNCHANGED <<storedTelemetry, telemetryEnabled, posthog, captured, toggles>>
    /\ UNCHANGED <<coreVars, workerVars, keyVars>>

\* initTelemetry after the await: the flag takes the preference read, and
\* posthog.init runs if it is enabled
InitTelemetryCompletes(c) ==
    \E init \in inits[c] :
        /\ init.read
        /\ inits' = [inits EXCEPT ![c] = @ \ {init}]
        /\ telemetryEnabled' = [telemetryEnabled EXCEPT ![c] = init.value]
        /\ posthog' = IF init.value
                      THEN [posthog EXCEPT ![c].loaded = TRUE]
                      ELSE posthog
        /\ UNCHANGED <<storedTelemetry, captured, toggles>>
        /\ UNCHANGED <<coreVars, workerVars, keyVars>>

\* PrivacySettings.handleTelemetryChange: setTelemetryEnabled(enabled) in the
\* options page, then updatePreferences saves the preference. The read of an
\* initTelemetry started here races with that save.
HandleTelemetryChange(enabled) ==
    LET c == "options_page"
    IN  /\ toggles < MaxToggles
        /\ toggles' = toggles + 1
        /\ telemetryEnabled' = [telemetryEnabled EXCEPT ![c] = enabled]
        /\ IF enabled
           THEN IF ~posthog[c].loaded
                THEN /\ \E value \in {storedTelemetry, enabled} :
                            inits' = [inits EXCEPT ![c] = @ \cup {InitRead(value)}]
                     /\ UNCHANGED posthog
                ELSE /\ posthog' = [posthog EXCEPT ![c].optedOut = FALSE]
                     /\ UNCHANGED inits
           ELSE /\ posthog' = [posthog EXCEPT ![c].optedOut = TRUE]
                /\ UNCHANGED inits
        /\ storedTelemetry' = enabled
        /\ UNCHANGED captured
        /\ UNCHANGED <<coreVars, workerVars, keyVars>>

\* trackEvent in context c: nothing if the flag is off, else posthog.capture.
\* The client sends the event if it is loaded and has not opted out.
TrackEvent(c, event) ==
    /\ Len(captured) < MaxEvents
    /\ telemetryEnabled[c]
    /\ captured' = Append(captured,
                          [event |-> event, context |-> c,
                           sent |-> posthog[c].loaded /\ ~posthog[c].optedOut])
    /\ UNCHANGED <<storedTelemetry, telemetryEnabled, posthog, inits, toggles>>
    /\ UNCHANGED <<coreVars, workerVars, keyVars>>

NextTelemetry ==
    \/ BackgroundStarts
    \/ \E c \in Contexts : InitTelemetryReads(c)
    \/ \E c \in Contexts : InitTelemetryCompletes(c)
    \/ \E enabled \in BOOLEAN : HandleTelemetryChange(enabled)
    \/ \E c \in Contexts, event \in TelemetryEvents : TrackEvent(c, event)

SpecTelemetry == Init /\ [][NextTelemetry]_vars

\* the events PostHog has been given and sends
SentEvents == SelectSeq(captured, LAMBDA e : e.sent)

\* C25: while telemetry is disabled in the stored preferences, whether it was
\* so at startup or was switched off in the options page, trackEvent captures
\* no event in any extension context
C25_NoCaptureWhileDisabled ==
    [][~storedTelemetry => SentEvents' = SentEvents]_vars

(* ------------------------------------------------------------------ *)
(* TranslationCache: expiry, overwriting and lifetime                  *)
(* ------------------------------------------------------------------ *)

\* C32: get, has, prune and restore agree on which entries are expired: at
\* every entry age, an age equal to the TTL included, restore (here on an
\* empty cache) inserts a snapshot entry if and only if get would return it
\* and prune would keep it.
C32_ExpiryTestsAgree ==
    [][(IsRestoreStep /\ backupStore.present /\ cache = <<>>) =>
         \A n \in 1..Len(backupStore.entries) :
            LET p == backupStore.entries[n]
                alone == <<p>>
            IN  /\ (GetReturn(alone, p.key, now) # Null)
                       <=> (MapAfterPrune(alone, now) = alone)
                /\ MapHas(cache', p.key)
                       <=> (GetReturn(alone, p.key, now) # Null)]_vars

\* C33: set on a key that is already present changes only the entry of that
\* key: no other entry is evicted and the size is unchanged, even when the
\* cache is at capacity.
C33_SetOnPresentKeyEvictsNothing ==
    [][\A key \in CacheKeys :
         (IsSetStep(key) /\ MapHas(cache, key)) =>
            /\ Len(cache') = Len(cache)
            /\ \A other \in KeySet(cache) \ {key} :
                  /\ MapHas(cache', other)
                  /\ MapGet(cache', other) = MapGet(cache, other)]_vars

\* a config.ttl of more than one clock tick, and the keys explored with it
LongTtl == 2
RestoreKeys == {"k1", "k2"}

\* set, get, backup and restore on a cache whose TTL is several clock ticks
NextRestore ==
    \/ \E key \in RestoreKeys : CacheGet(key)
    \/ \E key \in RestoreKeys, text \in CacheResults : CacheSet(key, text, "deepl")
    \/ CacheBackup
    \/ CacheRestore
    \/ Tick
    \/ WorkerRestart

InitRestore == OrchInit /\ CacheNew(DEFAULT_MAX_SIZE, LongTtl) /\ FnInit /\ ExtInit

SpecRestore == InitRestore /\ [][NextRestore]_vars

\* the entries held, with their keys, by the cache and by the snapshot
Held(m, backup) == {m[n] : n \in 1..Len(m)}
                       \cup {backup.entries[n] : n \in 1..Len(backup.entries)}

\* C34: no sequence of set, get, backup and restore makes get return an entry
\* more than TTL after the set that created it: an entry gets its timestamp
\* from the set that creates it, no other operation creates an entry or
\* changes a timestamp (get does not refresh it, a restored entry keeps it),
\* and get returns no entry older than the TTL.
C34_LifetimeNeverExtended ==
    [][/\ \A key \in CacheKeys :
            (IsGetStep(key) /\ lastOp'.ret # Null) =>
                now - lastOp'.ret.value.timestamp <= ttl
       /\ \A p \in Held(cache', backupStore') :
            \/ p \in Held(cache, backupStore)
            \/ /\ lastOp'.op = "set" /\ lastOp'.key = p.key
               /\ p.entry.timestamp = now]_vars

\* get returns, TTL after its creation, an entry that is in the snapshot
C34_Witness ==
    /\ lastOp.op = "get"
    /\ lastOp.ret.kind = "entry"
    /\ now - lastOp.ret.value.timestamp = ttl
    /\ now > 0
    /\ backupStore.present
    /\ \E n \in 1..Len(backupStore.entries) :
          /\ backupStore.entries[n].key = lastOp.key
          /\ backupStore.entries[n].entry = lastOp.ret.value

\* C35: restore never replaces an entry of the cache with a snapshot entry
\* that has an older timestamp: a value set after the last backup is still
\* what the cache holds for its key after restore.
C35_RestoreKeepsNewerEntries ==
    [][(IsRestoreStep /\ backupStore.present) =>
         \A key \in KeySet(cache) :
            (\E n \in 1..Len(backupStore.entries) :
                 /\ backupStore.entries[n].key = key
                 /\ backupStore.entries[n].entry.timestamp
                        < MapGet(cache, key).timestamp) =>
                MapGet(cache', key) = MapGet(cache, key)]_vars

(* ------------------------------------------------------------------ *)
(* Startup: the default registration                                   *)
(* ------------------------------------------------------------------ *)

\* the ids of TRANSLATION_SERVICES, the static service definitions
DefinedServiceIds == {"google-web", "lingva", "deepl", "microsoft", "yandex",
                      "baidu", "youdao", "google-cloud"}

\* the ids services/index registers when the module is evaluated, in order
DefaultRegistrations == <<"google-scraper", "lingva", "deepl">>

\* DEFAULT_PREFERENCES.fallbackOrder, and the fallbackOrder the options page
\* saves when it finds the list empty
DefaultFallbackOrder == <<"google-scraper">>
OptionsPageFallbackOrder == <<"google-web">>

\* getServiceDefinition(id) throws 'Unknown service' for an id without a
\* definition: the ids registered before the module evaluation throws
RECURSIVE RegisteredBeforeThrow(_)
RegisteredBeforeThrow(ids) ==
    IF ids = <<>> \/ ~(Head(ids) \in DefinedServiceIds) THEN {}
    ELSE {Head(ids)} \cup RegisteredBeforeThrow(Tail(ids))

\* services/index is evaluated: the default registrations run; if one throws
\* the module, and the background worker importing it, fails to load
LoadServices ==
    /\ pc = "idle" /\ mode = "none" /\ serviceRegistry = {}
    /\ serviceRegistry' = RegisteredBeforeThrow(DefaultRegistrations)
    /\ pc' = IF \A id \in SeqRange(DefaultRegistrations) : id \in DefinedServiceIds
             THEN "idle" ELSE "loadFailed"
    /\ UNCHANGED <<mode, enabledServices, apiKeys, availableServices, j, i,
                   lastError, result, thrown, directId, invoked, inflight,
                   prevOutcome, lastOutcome>>
    /\ UNCHANGED <<cacheVars, fnVars, extVars>>

NextStartup == LoadServices \/ Next

SpecStartup == Init /\ [][NextStartup]_vars

\* C36: every provider id of DEFAULT_PREFERENCES.fallbackOrder, and the id the
\* options page writes when the enabled list is empty, has a static service
\* definition and is registered once the default registration has run, and
\* that registration does not fail at load.
C36_DefaultProvidersDefinedAndRegistered ==
    /\ pc # "loadFailed"
    /\ serviceRegistry # {} =>
          \A id \in SeqRange(DefaultFallbackOrder) \cup SeqRange(OptionsPageFallbackOrder) :
              /\ id \in DefinedServiceIds
              /\ id \in SeqRange(DefaultRegistrations)

(* ------------------------------------------------------------------ *)
(* Language resolution                                                 *)
(* ------------------------------------------------------------------ *)

ISO_TO_BCP47 ==
    {<<<<"z", "h">>, <<"z", "h", "-", "C", "N">>>>,
     <<<<"p", "t">>, <<"p", "t">>>>,
     <<<<"n", "o">>, <<"n", "b">>>>}

\* fromUserInput
FromUserInput(code) ==
    LET normalized == ToLowerCase(code)
    IN  IF HasKey(ISO_TO_BCP47, normalized)
        THEN Lookup(ISO_TO_BCP47, normalized)
        ELSE normalized

\* resolveLanguageCode
ResolveLanguageCode(code, overrides) ==
    LET lower == ToLowerCase(code)
    IN  IF HasKey(overrides, lower) THEN Lookup(overrides, lower)
        ELSE FromUserInput(code)

\* the codes typed and the languageOverrides explored
ResolveCodes == {<<"z", "h">>,
                 <<"Z", "H">>,
                 <<"z", "h", "-", "C", "N">>,
                 <<"z", "h", "-", "c", "n">>,
                 <<"Z", "H", "-", "c", "n">>,
                 <<"z", "h", "-", "T", "W">>,
                 <<"p", "t">>,
                 <<"p", "t", "-", "B", "R">>,
                 <<"n", "o">>,
                 <<"N", "O">>,
                 <<"n", "b">>,
                 <<"e", "n">>,
                 <<"E", "N">>,
                 <<"f", "r">>}
LanguageOverrides == {{}, {<<<<"z", "h">>, <<"z", "h", "-", "T", "W">>>>}}

\* two codes are resolved, and the result of the first is resolved again
ResolveCall ==
    /\ fnOut = NoOutput
    /\ fnOut' = [fn |-> "resolveLanguageCode",
                 once |-> ResolveLanguageCode(fnIn.code, fnIn.overrides),
                 twice |-> ResolveLanguageCode(
                               ResolveLanguageCode(fnIn.code, fnIn.overrides),
                               fnIn.overrides),
                 other |-> ResolveLanguageCode(fnIn.other, fnIn.overrides)]
    /\ UNCHANGED fnIn
    /\ UNCHANGED <<orchVars, cacheVars, extVars>>

InitResolve ==
    /\ OrchInit /\ CacheInit /\ ExtInit
    /\ fnIn \in [fn : {"resolveLanguageCode"}, code : ResolveCodes,
                 other : ResolveCodes, overrides : LanguageOverrides]
    /\ fnOut = NoOutput

NextResolve == ResolveCall

SpecResolve == InitResolve /\ [][NextResolve]_vars

\* two inputs denote the same language variant: they are the same tag up to
\* case, or a bare language code and the variant it defaults to
SameVariant(a, b) ==
    \/ ToLowerCase(a) = ToLowerCase(b)
    \/ ToLowerCase(FromUserInput(a)) = ToLowerCase(b)
    \/ ToLowerCase(FromUserInput(b)) = ToLowerCase(a)

\* C37: without overrides language resolution is idempotent, and inputs that
\* denote the same variant ('zh', 'zh-CN', 'ZH-cn') resolve to the same
\* internal code.
C37_ResolutionIsCanonical ==
    (fnOut.fn = "resolveLanguageCode" /\ fnIn.overrides = {}) =>
        /\ fnOut.twice = fnOut.once
        /\ SameVariant(fnIn.code, fnIn.other) => fnOut.other = fnOut.once

(* ------------------------------------------------------------------ *)
(* Options page: stored credentials                                    *)
(* ------------------------------------------------------------------ *)

MaxKeyOps == 4

\* key values typed, and the ones the provider accepts
ApiKeyValues == {"key1:fx", "key2"}
AcceptedKeys == {"key1:fx"}

\* the stored credential; one key-requiring service is followed, so the
\* read of the other slots in setApiKey changes nothing here
Stored(credential) ==
    [present |-> TRUE, key |-> credential.key, validated |-> credential.validated,
     tier |-> credential.tier, lastValidated |-> credential.lastValidated]

\* handleApiKeyChange: the input is disabled while a validation runs;
\* saveApiKey builds the credential, validated false, shows it and starts
\* setApiKey; a 'valid' validation state goes back to 'idle'
HandleApiKeyChange(key) ==
    /\ keyOpCount < MaxKeyOps
    /\ keyUi.state # "validating"
    /\ keyOpCount' = keyOpCount + 1
    /\ keyUi' = [typed |-> key,
                 state |-> IF keyUi.state = "valid" THEN "idle" ELSE keyUi.state]
    /\ keyOps' = keyOps \cup
           {[op |-> "save", pc |-> "writing",
             credential |-> [key |-> key, validated |-> FALSE,
                             tier |-> IF key = "key1:fx" THEN "free" ELSE "pro",
                             lastValidated |-> "undefined"]]}
    /\ UNCHANGED <<storedCredential, passed>>
    /\ UNCHANGED <<coreVars, workerVars, telVars>>

\* setApiKey writes the credential of an operation to storage; after the
\* write of a successful validation the validation state becomes 'valid'
SetApiKeyWrites ==
    \E o \in keyOps :
        /\ o.pc = "writing"
        /\ storedCredential' = Stored(o.credential)
        /\ keyOps' = keyOps \ {o}
        /\ keyUi' = IF o.op = "validate" /\ o.credential.validated
                    THEN [keyUi EXCEPT !.state = "valid"]
                    ELSE keyUi
        /\ UNCHANGED <<passed, keyOpCount>>
        /\ UNCHANGED <<coreVars, workerVars, telVars>>

\* handleValidateKey(serviceId, apiKey) from the Test button, which is enabled
\* when a key is shown and no validation runs: the key shown is sent for
\* validation
HandleValidateKey ==
    /\ keyOpCount < MaxKeyOps
    /\ keyUi.typed # ""
    /\ keyUi.state \in {"idle", "error"}
    /\ keyOpCount' = keyOpCount + 1
    /\ keyUi' = [keyUi EXCEPT !.state = "validating"]
    /\ keyOps' = keyOps \cup
           {[op |-> "validate", pc |-> "validating", key |-> keyUi.typed]}
    /\ UNCHANGED <<storedCredential, passed>>
    /\ UNCHANGED <<coreVars, workerVars, telVars>>

\* validateApiKey answers, or throws and the catch block ends the handler;
\* with an answer updateKeyValidation(serviceId, valid) starts with getApiKey
ValidationAnswers ==
    \E o \in keyOps, throws \in BOOLEAN :
        /\ o.pc = "validating"
        /\ IF throws
           THEN /\ keyOps' = keyOps \ {o}
                /\ keyUi' = [keyUi EXCEPT !.state = "error"]
                /\ UNCHANGED passed
           ELSE /\ keyOps' = (keyOps \ {o}) \cup
                       {[op |-> "validate", pc |-> "reading", key |-> o.key,
                         isValid |-> o.key \in AcceptedKeys]}
                /\ keyUi' = IF o.key \in AcceptedKeys THEN keyUi
                            ELSE [keyUi EXCEPT !.state = "error"]
                /\ passed' = IF o.key \in AcceptedKeys
                             THEN passed \cup {o.key} ELSE passed
        /\ UNCHANGED <<storedCredential, keyOpCount>>
        /\ UNCHANGED <<coreVars, workerVars, telVars>>

\* updateKeyValidation after getApiKey: nothing stored ends it, else the
\* credential read gets validated = isValid, is shown, and setApiKey starts
UpdateKeyValidationReads ==
    \E o \in keyOps :
        /\ o.pc = "reading"
        /\ IF ~storedCredential.present
           THEN /\ keyOps' = keyOps \ {o}
                /\ keyUi' = IF o.isValid THEN [keyUi EXCEPT !.state = "valid"]
                            ELSE keyUi
           ELSE /\ keyOps' = (keyOps \ {o}) \cup
                       {[op |-> "validate", pc |-> "writing",
                         credential |-> [key |-> storedCredential.key,
                                         validated |-> o.isValid,
                                         tier |-> storedCredential.tier,
                                         lastValidated |-> "now"]]}
                /\ keyUi' = [keyUi EXCEPT !.typed = storedCredential.key]
        /\ UNCHANGED <<storedCredential, passed, keyOpCount>>
        /\ UNCHANGED <<coreVars, workerVars, telVars>>

NextKeys ==
    \/ \E key \in ApiKeyValues : HandleApiKeyChange(key)
    \/ SetApiKeyWrites
    \/ HandleValidateKey
    \/ ValidationAnswers
    \/ UpdateKeyValidationReads

SpecKeys == Init /\ [][NextKeys]_vars

\* C38: a stored credential has validated = true only while its key is one
\* that passed validation, whatever the interleaving of saveApiKey writes and
\* updateKeyValidation read-modify-writes.
C38_ValidatedOnlyForValidatedKey ==
    (storedCredential.present /\ storedCredential.validated) =>
        storedCredential.key \in passed

====
